---------------------------- MODULE Spec2Model ----------------------------
(***************************************************************************)
(* Model of the Four-Pillars (saju) calculator of src/saju_calculator.py.  *)
(*                                                                         *)
(* Hangul strings of the source are written in the Latin alphabet:         *)
(*   stems    gap eul byeong jeong mu gi gyeong sin im gye                 *)
(*   branches ja chuk in myo jin sa o mi sin yu sul hae                    *)
(*   elements mok hwa to geum su                                           *)
(* The stem at index 7 and the branch at index 8 are the same string in    *)
(* the source and so are the same string, "sin", here.                     *)
(*                                                                         *)
(* A datetime is a record [ord, sec]: the proleptic Gregorian ordinal of   *)
(* its date (date.toordinal) and the second of its day.  Scores that the   *)
(* source keeps as floats with one or two decimals are kept as integers in *)
(* hundredths (before rounding) and tenths (after round(x, 1)).            *)
(***************************************************************************)
EXTENDS Integers, Sequences, FiniteSets, TLC

VARIABLES args, chart, out, op, first, between, calls

vars == <<args, chart, out, op, first, between, calls>>

-----------------------------------------------------------------------------
(* Bounds of the model *)

\* how many of ProbeYears are birth years of the main specification
NumYears == 3

\* how many of ProbeTimes are birth times of the main specification
NumTimes == 4

\* how many of ProbeZones are timezones of the main specification
NumZones == 2

\* how many calculate_saju calls one session makes
MaxCalls == 3

ProbeYears == <<1995, 2024, 1900, 1996, 1984, 2000>>

\* <<hour, minute>>
ProbeTimes == <<
    <<0, 10>>, <<6, 1>>, <<5, 59>>, <<23, 50>>, <<12, 0>>, <<6, 0>>, <<23, 0>> >>

ProbeZones == <<"Asia/Seoul", "Asia/Tokyo", "Europe/London", "Australia/Sydney",
                "Etc/Unknown">>

Min(a, b) == IF a <= b THEN a ELSE b

Max(a, b) == IF a >= b THEN a ELSE b

Years == { ProbeYears[i] : i \in 1..Min(NumYears, Len(ProbeYears)) }

Times == { ProbeTimes[i] : i \in 1..Min(NumTimes, Len(ProbeTimes)) }

Zones == { ProbeZones[i] : i \in 1..Min(NumZones, Len(ProbeZones)) }

-----------------------------------------------------------------------------
(* Sequences and numbers *)

\* list.index(x): the 0-based position of the first x in s
Index(s, x) == (CHOOSE i \in 1..Len(s) : s[i] = x /\ \A j \in 1..(i-1) : s[j] # x) - 1

\* s[i] for a 0-based index i >= 0
At(s, i) == s[i + 1]

\* int(n / d) for d > 0: truncation toward zero
IntTrunc(n, d) == IF n >= 0 THEN n \div d ELSE -((-n) \div d)

RECURSIVE SumSeq(_)
SumSeq(s) == IF s = <<>> THEN 0 ELSE Head(s) + SumSeq(Tail(s))

-----------------------------------------------------------------------------
(* datetime *)

IsLeapYear(y) == y % 4 = 0 /\ (y % 100 # 0 \/ y % 400 = 0)

DaysInMonth(y, m) ==
    IF m = 2 THEN (IF IsLeapYear(y) THEN 29 ELSE 28)
    ELSE IF m \in {4, 6, 9, 11} THEN 30 ELSE 31

DaysBeforeYear(y) ==
    LET y1 == y - 1 IN y1 * 365 + y1 \div 4 - y1 \div 100 + y1 \div 400

RECURSIVE DaysBeforeMonth(_, _)
DaysBeforeMonth(y, m) ==
    IF m = 1 THEN 0 ELSE DaysBeforeMonth(y, m - 1) + DaysInMonth(y, m - 1)

\* date(y, m, d).toordinal()
Ymd2Ord(y, m, d) == DaysBeforeYear(y) + DaysBeforeMonth(y, m) + d

\* whether datetime(y, m, d, h, mi) is constructed (no ValueError)
ValidDateTime(y, m, d, h, mi) ==
    /\ m \in 1..12
    /\ d \in 1..DaysInMonth(y, m)
    /\ h \in 0..23
    /\ mi \in 0..59

\* datetime(y, m, d, h, mi)
DateTime(y, m, d, h, mi) == [ord |-> Ymd2Ord(y, m, d), sec |-> h * 3600 + mi * 60]

\* a < b on datetimes
DtLt(a, b) == a.ord < b.ord \/ (a.ord = b.ord /\ a.sec < b.sec)

\* a >= b on datetimes
DtGe(a, b) == ~DtLt(a, b)

\* dt - timedelta(seconds=s)
DtMinusSeconds(dt, s) ==
    LET total == dt.sec - s
    IN  [ord |-> dt.ord + total \div 86400, sec |-> total % 86400]

\* (a - b).days: a timedelta is normalised with 0 <= seconds < 86400
DtDiffDays(a, b) == (a.ord - b.ord) + (IF a.sec >= b.sec THEN 0 ELSE -1)

DtHour(dt) == dt.sec \div 3600

DtMinute(dt) == (dt.sec % 3600) \div 60

-----------------------------------------------------------------------------
(* Tables of SajuCalculator.__init__ *)

heavenly_stems ==
    <<"gap", "eul", "byeong", "jeong", "mu", "gi", "gyeong", "sin", "im", "gye">>

earthly_branches ==
    <<"ja", "chuk", "in", "myo", "jin", "sa", "o", "mi", "sin", "yu", "sul", "hae">>

Stems == { heavenly_stems[i] : i \in 1..Len(heavenly_stems) }

Branches == { earthly_branches[i] : i \in 1..Len(earthly_branches) }

Elements == <<"mok", "hwa", "to", "geum", "su">>

ElementSet == { Elements[i] : i \in 1..Len(Elements) }

\* one dict for stems and branches; the key "sin" is written twice in the
\* source (stem and branch), both times with the value geum
five_elements ==
    [gap |-> "mok", eul |-> "mok", byeong |-> "hwa", jeong |-> "hwa",
     mu |-> "to", gi |-> "to", gyeong |-> "geum", sin |-> "geum",
     im |-> "su", gye |-> "su",
     ja |-> "su", chuk |-> "to", in |-> "mok", myo |-> "mok",
     jin |-> "to", sa |-> "hwa", o |-> "hwa", mi |-> "to",
     yu |-> "geum", sul |-> "to", hae |-> "su"]

\* hidden_stems with the last weight of chuk mistyped
hidden_stems_mistyped ==
    [ja   |-> << <<"gye", 100>> >>,
     chuk |-> << <<"gi", 60>>, <<"sin", 30>>, <<"gye", 20>> >>,
     in   |-> << <<"gap", 60>>, <<"byeong", 30>>, <<"mu", 10>> >>,
     myo  |-> << <<"eul", 100>> >>,
     jin  |-> << <<"mu", 60>>, <<"eul", 30>>, <<"gye", 10>> >>,
     sa   |-> << <<"byeong", 70>>, <<"mu", 20>>, <<"gyeong", 10>> >>,
     o    |-> << <<"jeong", 70>>, <<"gi", 30>> >>,
     mi   |-> << <<"gi", 60>>, <<"jeong", 30>>, <<"eul", 10>> >>,
     sin  |-> << <<"gyeong", 60>>, <<"im", 30>>, <<"mu", 10>> >>,
     yu   |-> << <<"sin", 100>> >>,
     sul  |-> << <<"mu", 60>>, <<"sin", 30>>, <<"jeong", 10>> >>,
     hae  |-> << <<"im", 70>>, <<"gap", 30>> >>]

hidden_stems ==
    [ja   |-> << <<"gye", 100>> >>,
     chuk |-> << <<"gi", 60>>, <<"sin", 30>>, <<"gye", 10>> >>,
     in   |-> << <<"gap", 60>>, <<"byeong", 30>>, <<"mu", 10>> >>,
     myo  |-> << <<"eul", 100>> >>,
     jin  |-> << <<"mu", 60>>, <<"eul", 30>>, <<"gye", 10>> >>,
     sa   |-> << <<"byeong", 70>>, <<"mu", 20>>, <<"gyeong", 10>> >>,
     o    |-> << <<"jeong", 70>>, <<"gi", 30>> >>,
     mi   |-> << <<"gi", 60>>, <<"jeong", 30>>, <<"eul", 10>> >>,
     sin  |-> << <<"gyeong", 60>>, <<"im", 30>>, <<"mu", 10>> >>,
     yu   |-> << <<"sin", 100>> >>,
     sul  |-> << <<"mu", 60>>, <<"sin", 30>>, <<"jeong", 10>> >>,
     hae  |-> << <<"im", 70>>, <<"gap", 30>> >>]

\* year |-> <<leap lunar month, start month, start day, end month, end day>>,
\* or <<>> for a year registered as having no leap month
leap_months ==
    (1984 :> <<10, 11, 23, 12, 21>>) @@ (1987 :> <<6, 7, 26, 8, 23>>)
    @@ (1990 :> <<5, 6, 23, 7, 21>>) @@ (1993 :> <<3, 4, 22, 5, 20>>)
    @@ (1995 :> <<>>) @@ (1998 :> <<5, 5, 24, 6, 22>>)
    @@ (2001 :> <<4, 4, 23, 5, 21>>) @@ (2004 :> <<2, 2, 21, 3, 20>>)
    @@ (2006 :> <<7, 7, 25, 8, 23>>) @@ (2009 :> <<5, 5, 23, 6, 21>>)
    @@ (2012 :> <<3, 3, 21, 4, 19>>) @@ (2014 :> <<9, 9, 24, 10, 23>>)
    @@ (2017 :> <<6, 6, 24, 7, 22>>) @@ (2020 :> <<4, 4, 23, 5, 21>>)
    @@ (2023 :> <<2, 2, 20, 3, 21>>) @@ (2025 :> <<6, 6, 23, 7, 21>>)
    @@ (2028 :> <<5, 5, 21, 6, 19>>) @@ (2031 :> <<3, 3, 21, 4, 19>>)
    @@ (2033 :> <<11, 12, 22, 1, 19>>) @@ (2036 :> <<6, 6, 22, 7, 20>>)

\* term |-> <<month, day, hour, minute>>
solar_terms_1995 ==
    [ipchun |-> <<2, 4, 9, 14>>, usu |-> <<2, 19, 5, 1>>,
     gyeongchip |-> <<3, 6, 0, 46>>, chunbun |-> <<3, 21, 2, 14>>,
     cheongmyeong |-> <<4, 5, 15, 36>>, gogu |-> <<4, 20, 22, 1>>,
     ipha |-> <<5, 6, 2, 20>>, soman |-> <<5, 21, 4, 35>>,
     mangjong |-> <<6, 6, 5, 46>>, haji |-> <<6, 21, 15, 34>>,
     soseo |-> <<7, 7, 12, 3>>, daeseo |-> <<7, 23, 6, 29>>,
     ipchu |-> <<8, 8, 0, 1>>, cheoseo |-> <<8, 23, 16, 35>>,
     baengno |-> <<9, 8, 6, 0>>, chubun |-> <<9, 23, 16, 13>>,
     hallo |-> <<10, 8, 23, 37>>, sanggang |-> <<10, 24, 3, 4>>,
     ipdong |-> <<11, 8, 3, 4>>, soseol |-> <<11, 22, 23, 57>>,
     daeseol |-> <<12, 7, 17, 53>>, dongji |-> <<12, 22, 8, 17>>]

solar_terms_2024 ==
    [ipchun |-> <<2, 4, 16, 27>>, usu |-> <<2, 19, 12, 13>>,
     gyeongchip |-> <<3, 5, 22, 23>>, chunbun |-> <<3, 20, 15, 6>>,
     cheongmyeong |-> <<4, 4, 21, 2>>, gogu |-> <<4, 20, 3, 20>>,
     ipha |-> <<5, 5, 8, 10>>, soman |-> <<5, 20, 20, 59>>,
     mangjong |-> <<6, 5, 12, 10>>, haji |-> <<6, 21, 4, 51>>,
     soseo |-> <<7, 6, 22, 20>>, daeseo |-> <<7, 22, 15, 44>>,
     ipchu |-> <<8, 7, 9, 9>>, cheoseo |-> <<8, 22, 23, 55>>,
     baengno |-> <<9, 7, 12, 11>>, chubun |-> <<9, 22, 20, 44>>,
     hallo |-> <<10, 8, 3, 0>>, sanggang |-> <<10, 23, 6, 15>>,
     ipdong |-> <<11, 7, 6, 20>>, soseol |-> <<11, 22, 3, 56>>,
     daeseol |-> <<12, 7, 0, 17>>, dongji |-> <<12, 21, 17, 21>>]


\* solar_corrections, in tenths of a minute
solar_corrections ==
    [t \in {"Asia/Seoul", "Asia/Tokyo", "Asia/Shanghai", "Asia/Hong_Kong",
            "Asia/Singapore", "Asia/Bangkok", "Asia/Taipei", "America/New_York",
            "America/Los_Angeles", "Europe/London", "Europe/Paris",
            "Australia/Sydney", "Asia/Kolkata", "Asia/Dubai", "Europe/Berlin",
            "America/Chicago", "Asia/Manila"} |->
        CASE t = "Asia/Seoul" -> 320
          [] t = "Asia/Tokyo" -> -188
          [] t = "Asia/Shanghai" -> -59
          [] t = "Asia/Hong_Kong" -> 221
          [] t = "Asia/Singapore" -> 235
          [] t = "Asia/Bangkok" -> 8
          [] t = "Asia/Taipei" -> 220
          [] t = "Europe/Paris" -> 93
          [] t = "Australia/Sydney" -> -372
          [] t = "Asia/Kolkata" -> 213
          [] t = "Asia/Dubai" -> -132
          [] t = "Europe/Berlin" -> 79
          [] t = "Asia/Manila" -> 12
          [] OTHER -> 0]

\* base_terms of _calculate_solar_terms_dates, in the order of the dict
base_terms ==
    [sohan |-> <<1, 6, 0, 0>>, daehan |-> <<1, 20, 12, 0>>,
     ipchun |-> <<2, 4, 18, 0>>, usu |-> <<2, 19, 12, 0>>,
     gyeongchip |-> <<3, 5, 22, 0>>, chunbun |-> <<3, 20, 15, 0>>,
     cheongmyeong |-> <<4, 5, 3, 0>>, gogu |-> <<4, 20, 9, 0>>,
     ipha |-> <<5, 5, 20, 0>>, soman |-> <<5, 21, 9, 0>>,
     mangjong |-> <<6, 6, 0, 0>>, haji |-> <<6, 21, 17, 0>>,
     soseo |-> <<7, 7, 10, 0>>, daeseo |-> <<7, 23, 4, 0>>,
     ipchu |-> <<8, 7, 20, 0>>, cheoseo |-> <<8, 23, 11, 0>>,
     baengno |-> <<9, 8, 0, 0>>, chubun |-> <<9, 23, 9, 0>>,
     hallo |-> <<10, 8, 15, 0>>, sanggang |-> <<10, 23, 18, 0>>,
     ipdong |-> <<11, 7, 18, 0>>, soseol |-> <<11, 22, 16, 0>>,
     daeseol |-> <<12, 7, 11, 0>>, dongji |-> <<12, 21, 17, 30>>]

\* terms_order of _calculate_precise_fortune_start_age
terms_order ==
    <<"sohan", "daehan", "ipchun", "usu", "gyeongchip", "chunbun",
      "cheongmyeong", "gogu", "ipha", "soman", "mangjong", "haji", "soseo",
      "daeseo", "ipchu", "cheoseo", "baengno", "chubun", "hallo", "sanggang",
      "ipdong", "soseol", "daeseol", "dongji">>

-----------------------------------------------------------------------------
(* Chart building *)

SajuPillar(stem, branch) == [heavenly_stem |-> stem, earthly_branch |-> branch]

SajuChart(yp, mp, dp, hp, info) ==
    [year_pillar |-> yp, month_pillar |-> mp, day_pillar |-> dp,
     hour_pillar |-> hp, birth_info |-> info]

get_day_master(c) == c.day_pillar.heavenly_stem

\* the term's datetime in `year`, the hour shifted by int((year - 2000) * 0.25)
ApproxTermDate(year, term) ==
    LET month == base_terms[term][1]
        day == base_terms[term][2]
        hour == base_terms[term][3]
        minute == base_terms[term][4]
        hour_correction == IntTrunc((year - 2000) * 25, 100)
        h0 == hour + hour_correction
        corrected_day == IF h0 >= 24 \/ h0 < 0 THEN day + h0 \div 24 ELSE day
        corrected_hour == IF h0 >= 24 THEN h0 % 24
                          ELSE IF h0 < 0 THEN 24 + (h0 % 24)
                          ELSE h0
    IN  IF ValidDateTime(year, month, corrected_day, corrected_hour, minute)
        THEN DateTime(year, month, corrected_day, corrected_hour, minute)
        ELSE DateTime(year, month, day, hour, minute)

_calculate_solar_terms_dates(year) ==
    [term \in DOMAIN base_terms |-> ApproxTermDate(year, term)]

\* the dict solar_terms_dates that _get_month_branch_by_solar_terms builds
MonthTermDates(year) ==
    IF year = 1995
    THEN [term \in DOMAIN solar_terms_1995 |->
            LET t == solar_terms_1995[term] IN DateTime(year, t[1], t[2], t[3], t[4])]
    ELSE IF year = 2024
    THEN [term \in DOMAIN solar_terms_2024 |->
            LET t == solar_terms_2024[term] IN DateTime(year, t[1], t[2], t[3], t[4])]
    ELSE _calculate_solar_terms_dates(year)

\* the branch of one non-leap date: an if-chain over the calendar month
MonthBranchOfDate(year, month, day) ==
    LET terms == MonthTermDates(year)
        current_date == DateTime(year, month, day, 0, 0)
        Before(term) == DtLt(current_date, terms[term])
    IN  CASE month = 9 ->
               IF DtGe(current_date, terms["baengno"]) /\ Before("hallo") THEN 9
               ELSE IF Before("baengno") THEN 8
               ELSE 10
          [] month = 1 -> IF Before("ipchun") THEN 0 ELSE 2
          [] month = 2 ->
               IF Before("ipchun") THEN 0
               ELSE IF Before("gyeongchip") THEN 2 ELSE 3
          [] month = 3 ->
               IF Before("gyeongchip") THEN 2
               ELSE IF Before("cheongmyeong") THEN 3 ELSE 4
          [] month = 4 ->
               IF Before("cheongmyeong") THEN 3
               ELSE IF Before("ipha") THEN 4 ELSE 5
          [] month = 5 ->
               IF Before("ipha") THEN 4
               ELSE IF Before("mangjong") THEN 5 ELSE 6
          [] month = 6 ->
               IF Before("mangjong") THEN 5
               ELSE IF Before("soseo") THEN 6 ELSE 7
          [] month = 7 ->
               IF Before("soseo") THEN 6
               ELSE IF Before("ipchu") THEN 7 ELSE 8
          [] month = 8 ->
               IF Before("ipchu") THEN 7
               ELSE IF Before("baengno") THEN 8 ELSE 9
          [] month = 10 ->
               IF Before("hallo") THEN 9
               ELSE IF Before("ipdong") THEN 10 ELSE 11
          [] month = 11 ->
               IF Before("ipdong") THEN 10
               ELSE IF Before("daeseol") THEN 11 ELSE 0
          [] OTHER -> IF Before("daeseol") THEN 11 ELSE 0

\* LeapMonthBranch with the leap month resolved on its own date
LeapMonthBranchOwnDate(year, month, day) == MonthBranchOfDate(year, month, day)

\* a leap month takes the branch of the 15th of the month before it
LeapMonthBranch(year, month, day) ==
    IF month > 1
    THEN MonthBranchOfDate(year, month - 1, 15)
    ELSE MonthBranchOfDate(year - 1, 12, 15)

_get_month_branch_by_solar_terms(year, month, day, is_leap_month) ==
    IF is_leap_month
    THEN LeapMonthBranch(year, month, day)
    ELSE MonthBranchOfDate(year, month, day)

\* _calculate_year_pillar counting from the year 0 instead of 1984
_calculate_year_pillar_from_zero(year) ==
    SajuPillar(At(heavenly_stems, year % 10), At(earthly_branches, year % 12))

_calculate_year_pillar(year) ==
    LET year_diff == year - 1984
    IN  SajuPillar(At(heavenly_stems, year_diff % 10),
                   At(earthly_branches, year_diff % 12))

\* MonthStemBase with the five bases taken one group too early
MonthStemBaseShifted(year_stem_index) ==
    IF year_stem_index \in {0, 5} THEN 0
    ELSE IF year_stem_index \in {1, 6} THEN 2
    ELSE IF year_stem_index \in {2, 7} THEN 4
    ELSE IF year_stem_index \in {3, 8} THEN 6
    ELSE 8

\* month_stem_base by the year stem index
MonthStemBase(year_stem_index) ==
    IF year_stem_index \in {0, 5} THEN 2
    ELSE IF year_stem_index \in {1, 6} THEN 4
    ELSE IF year_stem_index \in {2, 7} THEN 6
    ELSE IF year_stem_index \in {3, 8} THEN 8
    ELSE 0

_calculate_month_pillar_improved(year, month, day, is_leap_month) ==
    LET month_branch_index ==
            _get_month_branch_by_solar_terms(year, month, day, is_leap_month)
        year_stem_index == (year - 1984) % 10
        month_offset == (month_branch_index - 2) % 12
        month_stem_index == (MonthStemBase(year_stem_index) + month_offset) % 10
    IN  SajuPillar(At(heavenly_stems, month_stem_index),
                   At(earthly_branches, month_branch_index))

\* the anchor: 1900-01-01 is the day gap-sul
base_stem_index == 0

base_branch_index == 10

\* _calculate_day_pillar with the branch anchor left out
_calculate_day_pillar_no_anchor(days_diff) ==
    SajuPillar(At(heavenly_stems, (base_stem_index + days_diff) % 10),
               At(earthly_branches, days_diff % 12))

_calculate_day_pillar(days_diff) ==
    SajuPillar(At(heavenly_stems, (base_stem_index + days_diff) % 10),
               At(earthly_branches, (base_branch_index + days_diff) % 12))

\* HourBranchIdx with the two-hour windows starting at midnight
HourBranchIdxFromMidnight(total_minutes) == total_minutes \div 120

\* branch_idx of the two-hour window of total_minutes
HourBranchIdx(total_minutes) ==
    IF total_minutes >= 23 * 60 \/ total_minutes < 1 * 60 THEN 0
    ELSE IF total_minutes < 3 * 60 THEN 1
    ELSE IF total_minutes < 5 * 60 THEN 2
    ELSE IF total_minutes < 7 * 60 THEN 3
    ELSE IF total_minutes < 9 * 60 THEN 4
    ELSE IF total_minutes < 11 * 60 THEN 5
    ELSE IF total_minutes < 13 * 60 THEN 6
    ELSE IF total_minutes < 15 * 60 THEN 7
    ELSE IF total_minutes < 17 * 60 THEN 8
    ELSE IF total_minutes < 19 * 60 THEN 9
    ELSE IF total_minutes < 21 * 60 THEN 10
    ELSE 11

\* HourStemBase taken to be the index of the day stem
HourStemBaseByDayStemIndex(day_stem) == Index(heavenly_stems, day_stem)

\* hour_stem_base by the day stem
HourStemBase(day_stem) ==
    IF day_stem \in {"gap", "gi"} THEN 0
    ELSE IF day_stem \in {"eul", "gyeong"} THEN 2
    ELSE IF day_stem \in {"byeong", "sin"} THEN 4
    ELSE IF day_stem \in {"jeong", "im"} THEN 6
    ELSE 8

_calculate_hour_pillar_improved(day_stem, hour, minute) ==
    LET branch_idx == HourBranchIdx(hour * 60 + minute)
        hour_stem_idx == (HourStemBase(day_stem) + branch_idx) % 10
    IN  SajuPillar(At(heavenly_stems, hour_stem_idx),
                   At(earthly_branches, branch_idx))

_apply_solar_time_correction(birth_datetime, timezone) ==
    LET correction_minutes ==
            IF timezone \in DOMAIN solar_corrections
            THEN solar_corrections[timezone] ELSE 0
        correction_seconds == IntTrunc(correction_minutes * 60, 10)
    IN  IF correction_minutes # 0
        THEN DtMinusSeconds(birth_datetime, correction_seconds)
        ELSE birth_datetime

calculate_saju(year, month, day, hour, minute, is_male, timezone, is_leap_month) ==
    LET birth_datetime ==
            _apply_solar_time_correction(
                DateTime(year, month, day, hour, minute), timezone)
        days_diff == birth_datetime.ord - Ymd2Ord(1900, 1, 1)
        day_pillar == _calculate_day_pillar(days_diff)
    IN  SajuChart(
            _calculate_year_pillar(year),
            _calculate_month_pillar_improved(year, month, day, is_leap_month),
            day_pillar,
            _calculate_hour_pillar_improved(
                day_pillar.heavenly_stem, DtHour(birth_datetime),
                DtMinute(birth_datetime)),
            [year |-> year, month |-> month, day |-> day, hour |-> hour,
             minute |-> minute, is_male |-> is_male, timezone |-> timezone,
             is_leap_month |-> is_leap_month, birth_datetime |-> birth_datetime])

\* whether detect_leap_month reaches datetime(year, month, day) with a date
\* the constructor refuses (ValueError, raised outside the try block)
detect_leap_month_raises(year, month, day) ==
    /\ year \in DOMAIN leap_months
    /\ leap_months[year] # <<>>
    /\ ~ValidDateTime(year, month, day, 0, 0)

\* the value detect_leap_month returns when it does not raise
detect_leap_month(year, month, day) ==
    IF year \notin DOMAIN leap_months \/ leap_months[year] = <<>>
    THEN FALSE
    ELSE LET e == leap_months[year]
             current_date == DateTime(year, month, day, 0, 0)
             leap_start == DateTime(year, e[2], e[3], 0, 0)
             leap_end == IF e[4] = 1 /\ e[2] = 12
                         THEN DateTime(year + 1, e[4], e[5], 0, 0)
                         ELSE DateTime(year, e[4], e[5], 0, 0)
         IN  DtGe(current_date, leap_start) /\ DtGe(leap_end, current_date)

\* auto_calculate_saju when neither detect_leap_month nor calculate_saju raises
auto_calculate_saju(year, month, day, hour, minute, is_male, timezone) ==
    calculate_saju(year, month, day, hour, minute, is_male, timezone,
                   detect_leap_month(year, month, day))

-----------------------------------------------------------------------------
(* Great fortune *)

\* round(n / d, 1) in tenths, for n >= 0 and d > 0 (half to even)
Round1Div(n, d) ==
    LET q == (10 * n) \div d
        r == (10 * n) % d
    IN  IF 2 * r < d THEN q
        ELSE IF 2 * r > d THEN q + 1
        ELSE IF q % 2 = 0 THEN q ELSE q + 1

\* the loop over terms_order from position i: the position of the first term
\* whose date is at or before the birth, where the loop breaks (0 if none)
RECURSIVE TermScan(_, _, _)
TermScan(solar_terms_dates, birth_datetime, i) ==
    IF i > Len(terms_order) THEN 0
    ELSE IF DtGe(birth_datetime, solar_terms_dates[terms_order[i]]) THEN i
    ELSE TermScan(solar_terms_dates, birth_datetime, i + 1)

CurrentTermPos(solar_terms_dates, birth_datetime) ==
    TermScan(solar_terms_dates, birth_datetime, 1)

\* in tenths of a year
_calculate_precise_fortune_start_age(saju_chart, direction) ==
    LET birth_info == saju_chart.birth_info
        birth_datetime == birth_info.birth_datetime
        year == birth_info.year
        solar_terms_dates == _calculate_solar_terms_dates(year)
        pos == CurrentTermPos(solar_terms_dates, birth_datetime)
        current_term == terms_order[pos]
        next_term == terms_order[(pos % Len(terms_order)) + 1]
        next_year_terms == _calculate_solar_terms_dates(year + 1)
        next_term_date ==
            IF next_term \in DOMAIN solar_terms_dates
            THEN solar_terms_dates[next_term]
            ELSE IF next_term \in DOMAIN next_year_terms
            THEN next_year_terms[next_term]
            ELSE [birth_datetime EXCEPT !.ord = @ + 15]
        days_to_next_term ==
            IF direction = 1
            THEN DtDiffDays(next_term_date, birth_datetime)
            ELSE DtDiffDays(birth_datetime, solar_terms_dates[current_term])
    IN  IF pos = 0 THEN 80
        ELSE Round1Div(Max(3, Min(30, days_to_next_term)), 3)

\* FortuneDirection decided by the sex alone
FortuneDirectionBySexOnly(year_stem_idx, is_male) == IF is_male THEN 1 ELSE -1

\* 1 (forward) or -1 (backward)
FortuneDirection(year_stem_idx, is_male) ==
    LET is_yang_year == (year_stem_idx % 2 = 0)
    IN  IF (is_yang_year /\ is_male) \/ (~is_yang_year /\ ~is_male) THEN 1 ELSE -1

\* calculate_great_fortune_improved stepping by i, so that the first period
\* repeats the month pillar
calculate_great_fortune_from_month(saju_chart) ==
    LET birth_info == saju_chart.birth_info
        year == birth_info.year
        year_stem_idx == Index(heavenly_stems, saju_chart.year_pillar.heavenly_stem)
        direction == FortuneDirection(year_stem_idx, birth_info.is_male)
        start_age == _calculate_precise_fortune_start_age(saju_chart, direction)
        month_stem_idx ==
            Index(heavenly_stems, saju_chart.month_pillar.heavenly_stem)
        month_branch_idx ==
            Index(earthly_branches, saju_chart.month_pillar.earthly_branch)
    IN  [k \in 1..8 |->
            LET i == k - 1
                age == start_age + i * 100
                stem_idx == (month_stem_idx + direction * i) % 10
                branch_idx == (month_branch_idx + direction * i) % 12
            IN  [age |-> age,
                 pillar |-> SajuPillar(At(heavenly_stems, stem_idx),
                                       At(earthly_branches, branch_idx)),
                 years |-> <<year * 10 + age, year * 10 + age + 90>>,
                 direction |-> IF direction = 1 THEN "sunhaeng" ELSE "yeokhaeng"]]

\* the list of 8 periods; age and years in tenths of a year
calculate_great_fortune_improved(saju_chart) ==
    LET birth_info == saju_chart.birth_info
        year == birth_info.year
        year_stem_idx == Index(heavenly_stems, saju_chart.year_pillar.heavenly_stem)
        direction == FortuneDirection(year_stem_idx, birth_info.is_male)
        start_age == _calculate_precise_fortune_start_age(saju_chart, direction)
        month_stem_idx ==
            Index(heavenly_stems, saju_chart.month_pillar.heavenly_stem)
        month_branch_idx ==
            Index(earthly_branches, saju_chart.month_pillar.earthly_branch)
    IN  [k \in 1..8 |->
            LET i == k - 1
                age == start_age + i * 100
                stem_idx == (month_stem_idx + direction * (i + 1)) % 10
                branch_idx == (month_branch_idx + direction * (i + 1)) % 12
            IN  [age |-> age,
                 pillar |-> SajuPillar(At(heavenly_stems, stem_idx),
                                       At(earthly_branches, branch_idx)),
                 years |-> <<year * 10 + age, year * 10 + age + 90>>,
                 direction |-> IF direction = 1 THEN "sunhaeng" ELSE "yeokhaeng"]]

-----------------------------------------------------------------------------
(* Element scores *)

Pillars(c) == <<c.year_pillar, c.month_pillar, c.day_pillar, c.hour_pillar>>

\* round(h / 100, 1) in tenths, for a score of h hundredths (half to even)
Round1(h) == Round1Div(h, 100)

\* PillarScore with the branch's own element counted on top of its hidden stems
PillarScoreBranchTwice(pillar, element) ==
    LET hs == hidden_stems[pillar.earthly_branch]
    IN  (IF five_elements[pillar.heavenly_stem] = element THEN 100 ELSE 0)
        + (IF five_elements[pillar.earthly_branch] = element THEN 100 ELSE 0)
        + SumSeq([k \in 1..Len(hs) |->
                    IF five_elements[hs[k][1]] = element THEN hs[k][2] ELSE 0])

\* what one pillar adds to `element`, in hundredths: 1.0 for its stem and
\* ratio / 100.0 for each hidden stem of its branch
PillarScore(pillar, element) ==
    LET hs == hidden_stems[pillar.earthly_branch]
    IN  (IF five_elements[pillar.heavenly_stem] = element THEN 100 ELSE 0)
        + SumSeq([k \in 1..Len(hs) |->
                    IF five_elements[hs[k][1]] = element THEN hs[k][2] ELSE 0])

\* scores in tenths
get_element_strength(saju_chart) ==
    [element \in ElementSet |->
        Round1(SumSeq([k \in 1..4 |-> PillarScore(Pillars(saju_chart)[k], element)]))]

\* max(hidden_stems, key=lambda x: x[1]): the first entry of the largest ratio
StrongestHidden(hs) ==
    hs[CHOOSE i \in 1..Len(hs) :
          /\ \A j \in 1..Len(hs) : hs[j][2] <= hs[i][2]
          /\ \A j \in 1..(i - 1) : hs[j][2] < hs[i][2]]

\* integer scores
get_element_strength_simple(saju_chart) ==
    [element \in ElementSet |->
        SumSeq([k \in 1..4 |->
            LET pillar == Pillars(saju_chart)[k]
                strongest == StrongestHidden(hidden_stems[pillar.earthly_branch])
            IN  (IF five_elements[pillar.heavenly_stem] = element THEN 1 ELSE 0)
                + (IF five_elements[strongest[1]] = element THEN 1 ELSE 0)])]

-----------------------------------------------------------------------------
(* Ten gods *)

\* day master's element |-> target element |-> <<same polarity, other polarity>>
ten_gods_mapping ==
    [mok |-> [mok |-> <<"bigyeon", "geopjae">>, hwa |-> <<"siksin", "sanggwan">>,
              to |-> <<"pyeonjae", "jeongjae">>, geum |-> <<"pyeongwan", "jeonggwan">>,
              su |-> <<"pyeonin", "jeongin">>],
     hwa |-> [hwa |-> <<"bigyeon", "geopjae">>, to |-> <<"siksin", "sanggwan">>,
              geum |-> <<"pyeonjae", "jeongjae">>, su |-> <<"pyeongwan", "jeonggwan">>,
              mok |-> <<"pyeonin", "jeongin">>],
     to |-> [to |-> <<"bigyeon", "geopjae">>, geum |-> <<"siksin", "sanggwan">>,
             su |-> <<"pyeonjae", "jeongjae">>, mok |-> <<"pyeongwan", "jeonggwan">>,
             hwa |-> <<"pyeonin", "jeongin">>],
     geum |-> [geum |-> <<"bigyeon", "geopjae">>, su |-> <<"siksin", "sanggwan">>,
               mok |-> <<"pyeonjae", "jeongjae">>, hwa |-> <<"pyeongwan", "jeonggwan">>,
               to |-> <<"pyeonin", "jeongin">>],
     su |-> [su |-> <<"bigyeon", "geopjae">>, mok |-> <<"siksin", "sanggwan">>,
             hwa |-> <<"pyeonjae", "jeongjae">>, to |-> <<"pyeongwan", "jeonggwan">>,
             geum |-> <<"pyeonin", "jeongin">>]]

RECURSIVE ConcatAll(_)
ConcatAll(ss) == IF ss = <<>> THEN <<>> ELSE Head(ss) \o ConcatAll(Tail(ss))

\* TenGodOf without the yin/yang test
TenGodOfIgnoringPolarity(day_master, stem) ==
    ten_gods_mapping[five_elements[day_master]][five_elements[stem]][1]

\* the ten god of a stem as seen from the day master
TenGodOf(day_master, stem) ==
    LET god_types == ten_gods_mapping[five_elements[day_master]][five_elements[stem]]
        same == (Index(heavenly_stems, day_master) % 2
                 = Index(heavenly_stems, stem) % 2)
    IN  IF same THEN god_types[1] ELSE god_types[2]

\* EmitsStemGod without the day-master test
EmitsStemGodAlways(day_master, pillar) == TRUE

\* whether the loop emits a stem entry for this pillar
EmitsStemGod(day_master, pillar) == pillar.heavenly_stem # day_master

\* the list of one pillar: its stem (kind cheongan, strength 0) unless it is
\* the day master, then the hidden stems of its branch (kind jiji)
PillarTenGods(day_master, pillar) ==
    LET hs == hidden_stems[pillar.earthly_branch]
    IN  (IF EmitsStemGod(day_master, pillar)
         THEN << [kind |-> "cheongan",
                  god |-> TenGodOf(day_master, pillar.heavenly_stem),
                  strength |-> 0] >>
         ELSE <<>>)
        \o ConcatAll([k \in 1..Len(hs) |->
              IF hs[k][1] # day_master
              THEN << [kind |-> "jiji", god |-> TenGodOf(day_master, hs[k][1]),
                       strength |-> hs[k][2]] >>
              ELSE <<>>])

analyze_ten_gods(saju_chart) ==
    LET day_master == get_day_master(saju_chart)
    IN  [nyeonju |-> PillarTenGods(day_master, saju_chart.year_pillar),
         wolju |-> PillarTenGods(day_master, saju_chart.month_pillar),
         ilju |-> PillarTenGods(day_master, saju_chart.day_pillar),
         siju |-> PillarTenGods(day_master, saju_chart.hour_pillar)]

-----------------------------------------------------------------------------
(* Branch relationships *)

\* the tables of branch_relationships, in the order of the dicts
branch_relationships ==
    [hap |-> << <<<<"ja", "chuk">>, "tohap">>, <<<<"in", "hae">>, "mokhap">>,
                <<<<"myo", "sul">>, "hwahap">>, <<<<"jin", "yu">>, "geumhap">>,
                <<<<"sa", "sin">>, "suhap">>, <<<<"o", "mi">>, "tohap">> >>,
     samhap |-> << <<<<"in", "o", "sul">>, "hwaguk">>, <<<<"sa", "yu", "chuk">>, "geumguk">>,
                   <<<<"sin", "ja", "jin">>, "suguk">>, <<<<"hae", "myo", "mi">>, "mokguk">> >>,
     chung |-> << <<<<"ja", "o">>, "jaochung">>, <<<<"chuk", "mi">>, "chukmichung">>,
                  <<<<"in", "sin">>, "insinchung">>, <<<<"myo", "yu">>, "myoyuchung">>,
                  <<<<"jin", "sul">>, "jinsulchung">>, <<<<"sa", "hae">>, "sahaechung">> >>,
     hae |-> << <<<<"ja", "mi">>, "jamihae">>, <<<<"chuk", "o">>, "chukohae">>,
                <<<<"in", "sa">>, "insahae">>, <<<<"myo", "jin">>, "myojinhae">>,
                <<<<"sin", "hae">>, "sinhaehae">>, <<<<"yu", "sul">>, "yusulhae">> >>,
     hyeong |-> << <<<<"chuk", "sul", "mi">>, "tohyeong">>,
                   <<<<"in", "sa", "sin">>, "mueunjihyeong">>,
                   <<<<"ja", "myo", "yu">>, "muryejihyeong">>,
                   <<<<"jin", "o", "hae">>, "jahyeong">> >>]

SeqToSet(s) == { s[i] : i \in 1..Len(s) }

ChartBranches(c) ==
    <<c.year_pillar.earthly_branch, c.month_pillar.earthly_branch,
      c.day_pillar.earthly_branch, c.hour_pillar.earthly_branch>>

\* the pairs (i, j), i < j, in the order of the two nested loops
PairLoop == << <<1, 2>>, <<1, 3>>, <<1, 4>>, <<2, 3>>, <<2, 4>>, <<3, 4>> >>

\* tuple(sorted([a, b])) == tuple(sorted(pair))
SamePair(a, b, pair) ==
    \/ (a = pair[1] /\ b = pair[2])
    \/ (a = pair[2] /\ b = pair[1])

\* the entries <<branches[i], branches[j], name>> of one pair table
PairRelations(branches, table) ==
    ConcatAll([p \in 1..Len(PairLoop) |->
        LET a == branches[PairLoop[p][1]]
            b == branches[PairLoop[p][2]]
        IN  ConcatAll([t \in 1..Len(table) |->
                IF SamePair(a, b, table[t][1])
                THEN << <<a, b, table[t][2]>> >> ELSE <<>>])])

\* TripleRelations with two branches of a triple being enough
TripleRelationsAnyTwo(branches, table) ==
    ConcatAll([t \in 1..Len(table) |->
        IF Cardinality(SeqToSet(table[t][1]) \cap SeqToSet(branches)) >= 2
        THEN << <<table[t][1], table[t][2]>> >> ELSE <<>>])

\* the entries <<triple, name>> of the triples that are subsets of the branches
TripleRelations(branches, table) ==
    ConcatAll([t \in 1..Len(table) |->
        IF SeqToSet(table[t][1]) \subseteq SeqToSet(branches)
        THEN << <<table[t][1], table[t][2]>> >> ELSE <<>>])

\* PunishmentRelations with one matching branch being enough
PunishmentRelationsAnyOne(branches, table) ==
    ConcatAll([t \in 1..Len(table) |->
        LET matching_branches == SeqToSet(table[t][1]) \cap SeqToSet(branches)
        IN  IF Cardinality(matching_branches) >= 1
            THEN << <<matching_branches, table[t][2]>> >> ELSE <<>>])

\* the entries <<matching branches, name>>; the source joins the matching
\* branches in the iteration order of a set, kept here as the set
PunishmentRelations(branches, table) ==
    ConcatAll([t \in 1..Len(table) |->
        LET matching_branches == SeqToSet(table[t][1]) \cap SeqToSet(branches)
        IN  IF Cardinality(matching_branches) >= 2
            THEN << <<matching_branches, table[t][2]>> >> ELSE <<>>])

analyze_branch_relationships(saju_chart) ==
    LET branches == ChartBranches(saju_chart)
    IN  [hap |-> PairRelations(branches, branch_relationships.hap),
         samhap |-> TripleRelations(branches, branch_relationships.samhap),
         chung |-> PairRelations(branches, branch_relationships.chung),
         hae |-> PairRelations(branches, branch_relationships.hae),
         hyeong |-> PunishmentRelations(branches, branch_relationships.hyeong)]

-----------------------------------------------------------------------------
(* Seasonal scores and day-master strength *)

\* month branch |-> element |-> weight in tenths
seasonal_weights ==
    [in   |-> [mok |-> 20, hwa |-> 13, to |-> 7, geum |-> 5, su |-> 6],
     myo  |-> [mok |-> 22, hwa |-> 13, to |-> 7, geum |-> 4, su |-> 6],
     jin  |-> [mok |-> 15, hwa |-> 11, to |-> 13, geum |-> 6, su |-> 7],
     sa   |-> [hwa |-> 20, to |-> 13, geum |-> 7, su |-> 5, mok |-> 6],
     o    |-> [hwa |-> 22, to |-> 13, geum |-> 7, su |-> 4, mok |-> 6],
     mi   |-> [hwa |-> 15, to |-> 18, geum |-> 8, su |-> 6, mok |-> 7],
     sin  |-> [geum |-> 20, su |-> 13, to |-> 7, hwa |-> 5, mok |-> 6],
     yu   |-> [geum |-> 22, su |-> 13, to |-> 7, hwa |-> 4, mok |-> 6],
     sul  |-> [geum |-> 15, su |-> 11, to |-> 13, hwa |-> 6, mok |-> 7],
     hae  |-> [su |-> 20, mok |-> 13, hwa |-> 7, to |-> 5, geum |-> 6],
     ja   |-> [su |-> 22, mok |-> 13, hwa |-> 7, to |-> 4, geum |-> 6],
     chuk |-> [su |-> 15, mok |-> 11, hwa |-> 7, to |-> 13, geum |-> 8]]

\* the values round(n / d, 0) may take: the nearest integer, and either
\* neighbour when n / d lies half way, where the binary float of the source
\* falls on one side or the other of the decimal tie
RoundDivSet(n, d) ==
    LET q == n \div d
        r == n % d
    IN  IF 2 * r < d THEN {q} ELSE IF 2 * r > d THEN {q + 1} ELSE {q, q + 1}

\* dict.get(key, default) of one level of seasonal_weights
WeightOf(seasonal_weight, element) ==
    IF element \in DOMAIN seasonal_weight THEN seasonal_weight[element] ELSE 10

\* what one pillar adds to `element` under the seasonal weights, in
\* thousandths: 1.0 * weight for its stem, (ratio / 100.0) * weight for each
\* hidden stem of its branch
SeasonPillarScore(pillar, element, seasonal_weight) ==
    LET hs == hidden_stems[pillar.earthly_branch]
        weight == WeightOf(seasonal_weight, element)
    IN  (IF five_elements[pillar.heavenly_stem] = element THEN 100 * weight ELSE 0)
        + SumSeq([k \in 1..Len(hs) |->
                    IF five_elements[hs[k][1]] = element
                    THEN hs[k][2] * weight ELSE 0])

\* the unrounded score of one element, in thousandths
SeasonRawScore(saju_chart, element) ==
    LET month_branch == saju_chart.month_pillar.earthly_branch
        seasonal_weight == IF month_branch \in DOMAIN seasonal_weights
                           THEN seasonal_weights[month_branch]
                           ELSE [e \in {} |-> 10]
    IN  SumSeq([k \in 1..4 |->
            SeasonPillarScore(Pillars(saju_chart)[k], element, seasonal_weight)])

\* the results get_element_strength_with_season may return, scores in tenths
get_element_strength_with_season(saju_chart) ==
    { [mok |-> a, hwa |-> b, to |-> c, geum |-> d, su |-> e] :
        a \in RoundDivSet(SeasonRawScore(saju_chart, "mok"), 100),
        b \in RoundDivSet(SeasonRawScore(saju_chart, "hwa"), 100),
        c \in RoundDivSet(SeasonRawScore(saju_chart, "to"), 100),
        d \in RoundDivSet(SeasonRawScore(saju_chart, "geum"), 100),
        e \in RoundDivSet(SeasonRawScore(saju_chart, "su"), 100) }

\* scores in tenths: stem 1.0, branch 1.0 shared out by the hidden-stem ratios
get_element_strength_balanced(saju_chart) ==
    [element \in ElementSet |->
        Round1(SumSeq([k \in 1..4 |-> PillarScore(Pillars(saju_chart)[k], element)]))]

\* HelpingConsuming that leaves the third consuming element out
HelpingConsumingTwoDraining(day_master_element) ==
    IF day_master_element = "mok" THEN << <<"su">>, <<"hwa", "to">> >>
    ELSE IF day_master_element = "hwa" THEN << <<"mok">>, <<"to", "geum">> >>
    ELSE IF day_master_element = "to" THEN << <<"hwa">>, <<"geum", "su">> >>
    ELSE IF day_master_element = "geum" THEN << <<"to">>, <<"su", "mok">> >>
    ELSE IF day_master_element = "su" THEN << <<"geum">>, <<"mok", "hwa">> >>
    ELSE << <<>>, <<>> >>

\* the if-chain on day_master_element: <<helping_elements, consuming_elements>>
HelpingConsuming(day_master_element) ==
    IF day_master_element = "mok" THEN << <<"su">>, <<"hwa", "to", "geum">> >>
    ELSE IF day_master_element = "hwa" THEN << <<"mok">>, <<"to", "geum", "su">> >>
    ELSE IF day_master_element = "to" THEN << <<"hwa">>, <<"geum", "su", "mok">> >>
    ELSE IF day_master_element = "geum" THEN << <<"to">>, <<"su", "mok", "hwa">> >>
    ELSE IF day_master_element = "su" THEN << <<"geum">>, <<"mok", "hwa", "to">> >>
    ELSE << <<>>, <<>> >>

\* min(scores, key=scores.get) / max(...): the first element of the list
\* with the least / greatest score
FirstBest(elems, elements, want_min) ==
    elems[CHOOSE i \in 1..Len(elems) :
            /\ \A j \in 1..Len(elems) :
                  IF want_min THEN elements[elems[i]] <= elements[elems[j]]
                  ELSE elements[elems[i]] >= elements[elems[j]]
            /\ \A j \in 1..(i - 1) : elements[elems[j]] # elements[elems[i]]]

\* the strength types the comparison with consuming_power * 1.2 and * 0.8 may
\* give; powers in tenths, an exact tie may fall either way in floats
StrengthTypes(helping_power, consuming_power) ==
    LET h == 10 * helping_power
        up == 12 * consuming_power
        low == 8 * consuming_power
        exact == consuming_power = 0
    IN  (IF h > up \/ (h = up /\ ~exact) THEN {"singang"} ELSE {})
        \cup (IF h <= up /\ (h < low \/ (h = low /\ ~exact)) THEN {"sinyak"} ELSE {})
        \cup (IF h <= up /\ h >= low THEN {"junghwa"} ELSE {})

\* the result for one outcome of the roundings; powers in tenths, power_ratio
\* in hundredths, primary_yongshin "None" when there is none (the "analysis"
\* text repeats the other fields and is left out)
DayMasterResult(saju_chart, elements, strength_type, power_ratio) ==
    LET day_master == get_day_master(saju_chart)
        day_master_element == five_elements[day_master]
        hc == HelpingConsuming(day_master_element)
        helping_elements == hc[1]
        consuming_elements == hc[2]
        same_element_power == elements[day_master_element] - 10
        helping_power ==
            SumSeq([k \in 1..Len(helping_elements) |-> elements[helping_elements[k]]])
            + same_element_power
        consuming_power ==
            SumSeq([k \in 1..Len(consuming_elements) |-> elements[consuming_elements[k]]])
        yongshin_elements ==
            IF strength_type = "singang" THEN consuming_elements
            ELSE IF strength_type = "sinyak" THEN helping_elements ELSE <<>>
        gishin_elements ==
            IF strength_type = "singang" THEN helping_elements
            ELSE IF strength_type = "sinyak" THEN consuming_elements ELSE <<>>
    IN  [day_master |-> day_master,
         day_master_element |-> day_master_element,
         strength_type |-> strength_type,
         strength_level |-> IF strength_type = "singang" THEN "gang"
                            ELSE IF strength_type = "sinyak" THEN "yak"
                            ELSE "pyeong",
         helping_power |-> helping_power,
         consuming_power |-> consuming_power,
         power_ratio |-> power_ratio,
         yongshin_elements |-> yongshin_elements,
         gishin_elements |-> gishin_elements,
         primary_yongshin |->
            IF yongshin_elements = <<>> THEN "None"
            ELSE FirstBest(yongshin_elements, elements, strength_type = "singang")]

\* the results analyze_day_master_strength may return
analyze_day_master_strength(saju_chart) ==
    UNION { LET hc == HelpingConsuming(five_elements[get_day_master(saju_chart)])
                helping_power ==
                    SumSeq([k \in 1..Len(hc[1]) |-> elements[hc[1][k]]])
                    + elements[five_elements[get_day_master(saju_chart)]] - 10
                consuming_power ==
                    SumSeq([k \in 1..Len(hc[2]) |-> elements[hc[2][k]]])
            IN  { DayMasterResult(saju_chart, elements, st, pr) :
                    st \in StrengthTypes(helping_power, consuming_power),
                    pr \in IF consuming_power > 0
                           THEN RoundDivSet(100 * helping_power, consuming_power)
                           ELSE {99900} }
          : elements \in get_element_strength_with_season(saju_chart) }

-----------------------------------------------------------------------------
(* Shinsals and the twelve stages *)

\* a key that is a string of stems or branches is the sequence of its syllables
shinsals ==
    [gongmang |->
        [gapeul |-> <<"sul", "hae">>, byeongjeong |-> <<"sin", "yu">>,
         mugi |-> <<"o", "mi">>, gyeongsin |-> <<"jin", "sa">>,
         imgye |-> <<"in", "myo">>],
     dohwa |-> << <<<<"in", "o", "sul">>, "myo">>, <<<<"sa", "yu", "chuk">>, "o">>,
                  <<<<"sin", "ja", "jin">>, "yu">>, <<<<"hae", "myo", "mi">>, "ja">> >>,
     yeokma |-> << <<<<"in", "o", "sul">>, "sin">>, <<<<"sa", "yu", "chuk">>, "hae">>,
                   <<<<"sin", "ja", "jin">>, "in">>, <<<<"hae", "myo", "mi">>, "sa">> >>,
     cheoneulgwiin |->
        << <<<<"gap", "mu">>, <<"chuk", "mi">>>>, <<<<"eul", "gi">>, <<"ja", "sin">>>>,
           <<<<"byeong", "jeong">>, <<"hae", "yu">>>>,
           <<<<"gyeong", "sin">>, <<"o", "in">>>>, <<<<"im", "gye">>, <<"sa", "myo">>>> >>,
     taegeukgwiin |->
        << <<<<"gap", "eul">>, <<"ja", "o">>>>, <<<<"byeong", "jeong">>, <<"myo", "yu">>>>,
           <<<<"mu">>, <<"jin", "sul", "chuk", "mi">>>>,
           <<<<"gi">>, <<"jin", "sul", "chuk", "mi">>>>,
           <<<<"gyeong", "sin">>, <<"in", "hae">>>>, <<<<"im", "gye">>, <<"sa", "sin">>>> >>]

\* the if-chain that names the group of the day stem, "None" when none matches
DayStemGroup(day_stem) ==
    IF day_stem \in {"gap", "eul"} THEN "gapeul"
    ELSE IF day_stem \in {"byeong", "jeong"} THEN "byeongjeong"
    ELSE IF day_stem \in {"mu", "gi"} THEN "mugi"
    ELSE IF day_stem \in {"gyeong", "sin"} THEN "gyeongsin"
    ELSE IF day_stem \in {"im", "gye"} THEN "imgye"
    ELSE "None"

\* dohwa / yeokma: the chart branches equal to the target of a pattern that
\* holds the year branch or the day branch
PatternHits(table, bases, branches) ==
    { b \in SeqToSet(branches) :
        \E t \in 1..Len(table) :
            /\ \E base \in bases : base \in SeqToSet(table[t][1])
            /\ b = table[t][2] }

\* gwiin: the chart branches listed for a group that holds the day stem
GroupHits(table, day_stem, branches) ==
    { b \in SeqToSet(branches) :
        \E t \in 1..Len(table) :
            /\ day_stem \in SeqToSet(table[t][1])
            /\ b \in SeqToSet(table[t][2]) }

\* each list goes through list(set(...)), so its order is not fixed and its
\* entries are distinct: it is kept as the set of the branches it names
analyze_shinsals(saju_chart) ==
    LET day_stem == get_day_master(saju_chart)
        day_branch == saju_chart.day_pillar.earthly_branch
        year_branch == saju_chart.year_pillar.earthly_branch
        branches == ChartBranches(saju_chart)
        day_stem_group == DayStemGroup(day_stem)
    IN  [gongmang |->
            IF day_stem_group # "None"
            THEN SeqToSet(branches) \cap SeqToSet(shinsals.gongmang[day_stem_group])
            ELSE {},
         dohwa |-> PatternHits(shinsals.dohwa, {year_branch, day_branch}, branches),
         yeokma |-> PatternHits(shinsals.yeokma, {year_branch, day_branch}, branches),
         cheoneulgwiin |-> GroupHits(shinsals.cheoneulgwiin, day_stem, branches),
         taegeukgwiin |-> GroupHits(shinsals.taegeukgwiin, day_stem, branches)]

\* twelve_stages_yang and twelve_stages_yin hold the same list
twelve_stages ==
    <<"jangsaeng", "mogyok", "gwandae", "geollok", "jewang", "soe", "byeong",
      "sa", "myo", "jeol", "tae", "yang">>

\* jangsaeng_positions without an entry for the earth stems
jangsaeng_positions_without_to ==
    [mok |-> "hae", hwa |-> "in", geum |-> "sa", su |-> "sin"]

jangsaeng_positions ==
    [mok |-> "hae", hwa |-> "in", to |-> "in", geum |-> "sa", su |-> "sin"]

\* StageOf that walks forward for both polarities
StageOfAlwaysForward(is_yang, jangsaeng_idx, pillar) ==
    LET branch_idx == Index(earthly_branches, pillar.earthly_branch)
    IN  <<pillar.earthly_branch, At(twelve_stages, (branch_idx - jangsaeng_idx) % 12)>>

\* the stage of one pillar's branch
StageOf(is_yang, jangsaeng_idx, pillar) ==
    LET branch_idx == Index(earthly_branches, pillar.earthly_branch)
        stage_idx == IF is_yang THEN (branch_idx - jangsaeng_idx) % 12
                     ELSE (jangsaeng_idx - branch_idx) % 12
    IN  <<pillar.earthly_branch, At(twelve_stages, stage_idx)>>

\* pillar name |-> <<branch, stage>>
analyze_twelve_stages(saju_chart) ==
    LET day_master == get_day_master(saju_chart)
        day_master_element == five_elements[day_master]
        is_yang == Index(heavenly_stems, day_master) % 2 = 0
        jangsaeng_idx ==
            Index(earthly_branches, jangsaeng_positions[day_master_element])
    IN  [nyeonju |-> StageOf(is_yang, jangsaeng_idx, saju_chart.year_pillar),
         wolju |-> StageOf(is_yang, jangsaeng_idx, saju_chart.month_pillar),
         ilju |-> StageOf(is_yang, jangsaeng_idx, saju_chart.day_pillar),
         siju |-> StageOf(is_yang, jangsaeng_idx, saju_chart.hour_pillar)]

-----------------------------------------------------------------------------
(* Lookups of the analyzers: each predicate holds when no subscript, index() *)
(* call, max() or division of the analyzer raises                           *)

\* list.index(x) finds x
InList(s, x) == \E i \in 1..Len(s) : s[i] = x

\* self.five_elements[stem] and the elements[...] update that follows it
ElementKnown(stem) ==
    stem \in DOMAIN five_elements /\ five_elements[stem] \in ElementSet

\* self.hidden_stems[branch] and, for each of its entries, five_elements
HiddenKnown(branch) ==
    /\ branch \in DOMAIN hidden_stems
    /\ \A k \in 1..Len(hidden_stems[branch]) : ElementKnown(hidden_stems[branch][k][1])

\* get_element_strength, get_element_strength_balanced and
\* get_element_strength_with_season perform the same lookups
ElementStrengthDefined(c) ==
    \A k \in 1..4 :
        /\ ElementKnown(Pillars(c)[k].heavenly_stem)
        /\ HiddenKnown(Pillars(c)[k].earthly_branch)

\* max() of an empty list raises
ElementStrengthSimpleDefined(c) ==
    /\ ElementStrengthDefined(c)
    /\ \A k \in 1..4 : Len(hidden_stems[Pillars(c)[k].earthly_branch]) > 0

\* the lookups that give the ten god of one stem
TenGodKnown(day_master, stem) ==
    /\ stem \in DOMAIN five_elements
    /\ InList(heavenly_stems, stem)
    /\ five_elements[day_master] \in DOMAIN ten_gods_mapping
    /\ five_elements[stem] \in DOMAIN ten_gods_mapping[five_elements[day_master]]
    /\ Len(ten_gods_mapping[five_elements[day_master]][five_elements[stem]]) >= 2

TenGodsDefined(c) ==
    LET day_master == get_day_master(c)
    IN  /\ day_master \in DOMAIN five_elements
        /\ InList(heavenly_stems, day_master)
        /\ \A k \in 1..4 :
              LET pillar == Pillars(c)[k]
              IN  /\ pillar.heavenly_stem # day_master
                        => TenGodKnown(day_master, pillar.heavenly_stem)
                  /\ pillar.earthly_branch \in DOMAIN hidden_stems
                  /\ \A j \in 1..Len(hidden_stems[pillar.earthly_branch]) :
                        LET hidden_stem == hidden_stems[pillar.earthly_branch][j][1]
                        IN  hidden_stem # day_master
                                => TenGodKnown(day_master, hidden_stem)

\* the division is guarded by consuming_power > 0, min() and max() by a
\* non-empty yongshin_elements
DayMasterStrengthDefined(c) ==
    /\ ElementKnown(get_day_master(c))
    /\ ElementStrengthDefined(c)
    /\ c.month_pillar.earthly_branch \in DOMAIN seasonal_weights
          => \A e \in DOMAIN seasonal_weights[c.month_pillar.earthly_branch] :
                e \in ElementSet

BranchRelationshipsDefined(c) ==
    {"hap", "samhap", "chung", "hae", "hyeong"} \subseteq DOMAIN branch_relationships

ShinsalsDefined(c) ==
    /\ {"gongmang", "dohwa", "yeokma", "cheoneulgwiin", "taegeukgwiin"}
          \subseteq DOMAIN shinsals
    /\ DayStemGroup(get_day_master(c)) # "None"
          => DayStemGroup(get_day_master(c)) \in DOMAIN shinsals.gongmang

TwelveStagesDefined(c) ==
    LET day_master == get_day_master(c)
    IN  /\ day_master \in DOMAIN five_elements
        /\ InList(heavenly_stems, day_master)
        /\ five_elements[day_master] \in DOMAIN jangsaeng_positions
        /\ InList(earthly_branches, jangsaeng_positions[five_elements[day_master]])
        /\ \A k \in 1..4 : InList(earthly_branches, Pillars(c)[k].earthly_branch)
        /\ Len(twelve_stages) = 12

\* birth_info is the dict calculate_saju stored
GreatFortuneDefined(c) ==
    /\ {"year", "month", "day", "is_male", "birth_datetime"} \subseteq DOMAIN c.birth_info
    /\ InList(heavenly_stems, c.year_pillar.heavenly_stem)
    /\ InList(heavenly_stems, c.month_pillar.heavenly_stem)
    /\ InList(earthly_branches, c.month_pillar.earthly_branch)

-----------------------------------------------------------------------------
(* State machine: one calculator object and its callers *)

NoArgs == [none |-> TRUE]

NoChart == [none |-> TRUE]

NoInfo == [none |-> TRUE]

NoOut == [none |-> TRUE]

MakeArgs(y, m, d, h, mi, male, tz, leap) ==
    [year |-> y, month |-> m, day |-> d, hour |-> h, minute |-> mi,
     is_male |-> male, timezone |-> tz, is_leap_month |-> leap]

\* the calls of the main specification: every valid date of the probe years
ArgsDomain ==
    { MakeArgs(y, m, d, t[1], t[2], male, tz, leap) :
        y \in Years, m \in 1..12, d \in 1..31, t \in Times,
        male \in BOOLEAN, tz \in Zones, leap \in BOOLEAN }

ValidArgs(a) == ValidDateTime(a.year, a.month, a.day, a.hour, a.minute)

\* the calls one session chooses from
SessionArgs ==
    { MakeArgs(y, 9, 8, t[1], t[2], male, "Asia/Seoul", FALSE) :
        y \in {1995, 2024}, t \in {<<0, 10>>, <<6, 1>>}, male \in BOOLEAN }

Call(a) ==
    calculate_saju(a.year, a.month, a.day, a.hour, a.minute, a.is_male,
                   a.timezone, a.is_leap_month)

\* the stem that pairs with a branch in pillar position k
PairedStem(branch, k) ==
    At(heavenly_stems, (Index(earthly_branches, branch) + 2 * k) % 10)

\* every combination of four branches
BranchCharts ==
    { SajuChart(SajuPillar(PairedStem(yb, 0), yb), SajuPillar(PairedStem(mb, 1), mb),
                SajuPillar(PairedStem(db, 2), db), SajuPillar(PairedStem(hb, 3), hb),
                NoInfo) :
        yb \in Branches, mb \in Branches, db \in Branches, hb \in Branches }

\* every day pillar against every pillar in the three other positions
PairCharts ==
    { SajuChart(SajuPillar(s, b), SajuPillar(s, b), SajuPillar(ds, db),
                SajuPillar(s, b), NoInfo) :
        s \in Stems, b \in Branches, ds \in Stems, db \in Branches }

ChartDomain == BranchCharts \cup PairCharts

Init ==
    /\ args \in { a \in ArgsDomain : ValidArgs(a) }
    /\ chart = NoChart
    /\ out = NoOut
    /\ op = "init"
    /\ first = NoChart
    /\ between = FALSE
    /\ calls = 0

InitChart ==
    /\ args = NoArgs
    /\ chart \in ChartDomain
    /\ out = NoOut
    /\ op = "chart"
    /\ first = NoChart
    /\ between = FALSE
    /\ calls = 0

InitSession ==
    /\ args = NoArgs
    /\ chart = NoChart
    /\ out = NoOut
    /\ op = "init"
    /\ first = NoChart
    /\ between = FALSE
    /\ calls = 0

\* calculate_saju on the pending call
CalculateSaju ==
    /\ op = "init"
    /\ args # NoArgs
    /\ chart' = Call(args)
    /\ op' = "calculate_saju"
    /\ UNCHANGED <<args, out, first, between, calls>>

\* SessionCalculateSaju computing from the arguments of the call before
SessionCalculateSajuStale(a) ==
    /\ calls < MaxCalls
    /\ args' = a
    /\ chart' = IF args = NoArgs THEN Call(a) ELSE Call(args)
    /\ op' = "calculate_saju"
    /\ calls' = calls + 1
    /\ first' = IF first = NoChart THEN chart' ELSE first
    /\ between' = (between \/ first # NoChart)
    /\ UNCHANGED out

\* calculate_saju within a session: first keeps the chart of the first call,
\* between records that something else ran on the calculator since
SessionCalculateSaju(a) ==
    /\ calls < MaxCalls
    /\ args' = a
    /\ chart' = Call(a)
    /\ op' = "calculate_saju"
    /\ calls' = calls + 1
    /\ first' = IF first = NoChart THEN chart' ELSE first
    /\ between' = (between \/ (first # NoChart /\ MakeArgs(
                      first.birth_info.year, first.birth_info.month,
                      first.birth_info.day, first.birth_info.hour,
                      first.birth_info.minute, first.birth_info.is_male,
                      first.birth_info.timezone, first.birth_info.is_leap_month) # a))
    /\ UNCHANGED out

\* an analyzer returns result r; the chart is left as it is
Analyze(name, r) ==
    /\ chart # NoChart
    /\ out' = r
    /\ op' = name
    /\ between' = (between \/ first # NoChart)
    /\ UNCHANGED <<args, chart, first, calls>>

CalculateGreatFortuneImproved ==
    /\ chart # NoChart
    /\ chart.birth_info # NoInfo
    /\ Analyze("calculate_great_fortune_improved",
               calculate_great_fortune_improved(chart))

GetElementStrength ==
    Analyze("get_element_strength", get_element_strength(chart))

GetElementStrengthSimple ==
    Analyze("get_element_strength_simple", get_element_strength_simple(chart))

AnalyzeTenGods ==
    Analyze("analyze_ten_gods", analyze_ten_gods(chart))

AnalyzeBranchRelationships ==
    Analyze("analyze_branch_relationships", analyze_branch_relationships(chart))

\* one request: the chart, then its great fortune
Next ==
    \/ CalculateSaju
    \/ (op = "calculate_saju" /\ CalculateGreatFortuneImproved)

Spec == Init /\ [][Next]_vars

\* the analyzers on a chart, each from the chart as built
NextChart ==
    \/ (op = "chart" /\ GetElementStrength)
    \/ (op = "chart" /\ GetElementStrengthSimple)
    \/ (op = "chart" /\ AnalyzeTenGods)
    \/ (op = "chart" /\ AnalyzeBranchRelationships)

SpecChart == InitChart /\ [][NextChart]_vars

\* one calculator object used for several calls, analyzers in between
NextSession ==
    \/ \E a \in SessionArgs : SessionCalculateSaju(a)
    \/ CalculateGreatFortuneImproved
    \/ GetElementStrength
    \/ GetElementStrengthSimple
    \/ AnalyzeTenGods
    \/ AnalyzeBranchRelationships

SpecSession == InitSession /\ [][NextSession]_vars

\* raw arguments as a caller may pass them, refused ones included
InputYears == {1995, 2023, 2024}

InputMonths == {0, 2, 3, 9, 13}

InputDays == {0, 20, 29, 30, 31, 32}

InputTimes == { <<-1, 0>>, <<6, 1>>, <<24, 0>>, <<6, 60>>, <<23, 59>>, <<6, -1>> }

InputDomain ==
    { MakeArgs(y, m, d, t[1], t[2], TRUE, "Asia/Seoul", leap) :
        y \in InputYears, m \in InputMonths, d \in InputDays, t \in InputTimes,
        leap \in BOOLEAN }

InitInput ==
    /\ args \in InputDomain
    /\ chart = NoChart
    /\ out = NoOut
    /\ op = "init"
    /\ first = NoChart
    /\ between = FALSE
    /\ calls = 0

\* the exception leaves the caller without a chart
Raise(name) ==
    /\ chart' = NoChart
    /\ op' = name
    /\ UNCHANGED <<args, out, first, between, calls>>

\* calculate_saju on raw arguments: the datetime constructor of its first
\* statement raises ValueError, nothing else in it inspects the arguments
CalculateSajuInput ==
    /\ op = "init"
    /\ IF ValidArgs(args)
       THEN /\ chart' = Call(args)
            /\ op' = "calculate_saju"
            /\ UNCHANGED <<args, out, first, between, calls>>
       ELSE Raise("ValueError")

\* auto_calculate_saju on raw arguments (it takes no is_leap_month)
AutoCalculateSaju ==
    /\ op = "init"
    /\ ~args.is_leap_month
    /\ IF detect_leap_month_raises(args.year, args.month, args.day) \/ ~ValidArgs(args)
       THEN Raise("ValueError")
       ELSE /\ chart' = auto_calculate_saju(args.year, args.month, args.day,
                            args.hour, args.minute, args.is_male, args.timezone)
            /\ op' = "auto_calculate_saju"
            /\ UNCHANGED <<args, out, first, between, calls>>

NextInput ==
    \/ CalculateSajuInput
    \/ AutoCalculateSaju

SpecInput == InitInput /\ [][NextInput]_vars

\* the charts the analyzers are run on: every chart of ChartDomain, and
\* charts as calculate_saju returns them
AnalyzeCharts == ChartDomain \cup { Call(a) : a \in SessionArgs }

InitAnalyze ==
    /\ args = NoArgs
    /\ chart \in AnalyzeCharts
    /\ out = NoOut
    /\ op = "chart"
    /\ first = NoChart
    /\ between = FALSE
    /\ calls = 0

\* the analyzer raises: the caller gets no result
AnalyzerRaises ==
    /\ out' = NoOut
    /\ op' = "Error"
    /\ UNCHANGED <<args, chart, first, between, calls>>

\* one analyzer call: one of the results it may return when all of its
\* lookups succeed, an exception otherwise
TryAnalyze(name, defined, results) ==
    /\ op = "chart"
    /\ IF defined THEN \E r \in results : Analyze(name, r) ELSE AnalyzerRaises

NextAnalyze ==
    \/ TryAnalyze("analyze_ten_gods", TenGodsDefined(chart),
                  {analyze_ten_gods(chart)})
    \/ TryAnalyze("get_element_strength", ElementStrengthDefined(chart),
                  {get_element_strength(chart)})
    \/ TryAnalyze("get_element_strength_with_season", ElementStrengthDefined(chart),
                  get_element_strength_with_season(chart))
    \/ TryAnalyze("get_element_strength_balanced", ElementStrengthDefined(chart),
                  {get_element_strength_balanced(chart)})
    \/ TryAnalyze("get_element_strength_simple", ElementStrengthSimpleDefined(chart),
                  {get_element_strength_simple(chart)})
    \/ TryAnalyze("analyze_day_master_strength", DayMasterStrengthDefined(chart),
                  analyze_day_master_strength(chart))
    \/ TryAnalyze("analyze_branch_relationships", BranchRelationshipsDefined(chart),
                  {analyze_branch_relationships(chart)})
    \/ TryAnalyze("analyze_shinsals", ShinsalsDefined(chart),
                  {analyze_shinsals(chart)})
    \/ TryAnalyze("analyze_twelve_stages", TwelveStagesDefined(chart),
                  {analyze_twelve_stages(chart)})
    \/ (chart.birth_info # NoInfo
        /\ TryAnalyze("calculate_great_fortune_improved", GreatFortuneDefined(chart),
                      {calculate_great_fortune_improved(chart)}))

SpecAnalyze == InitAnalyze /\ [][NextAnalyze]_vars

\* the hour pillar on its own: every day stem at every minute of the day
HourArgs ==
    { [day_stem |-> s, hour |-> h, minute |-> mi] :
        s \in Stems, h \in 0..23, mi \in 0..59 }

InitHour ==
    /\ args \in HourArgs
    /\ chart = NoChart
    /\ out = NoOut
    /\ op = "init"
    /\ first = NoChart
    /\ between = FALSE
    /\ calls = 0

CalculateHourPillarImproved ==
    /\ op = "init"
    /\ out' = _calculate_hour_pillar_improved(args.day_stem, args.hour, args.minute)
    /\ op' = "_calculate_hour_pillar_improved"
    /\ UNCHANGED <<args, chart, first, between, calls>>

NextHour == CalculateHourPillarImproved

SpecHour == InitHour /\ [][NextHour]_vars


\* leap-month detection on its own: every day number 1..31 of every month of
\* a year without leap month, a year with one, the year whose leap month runs
\* into the next year, and that next year
LeapYears == {1995, 2023, 2033, 2034}

LeapArgs ==
    { MakeArgs(y, m, d, 6, 1, TRUE, "Asia/Seoul", FALSE) :
        y \in LeapYears, m \in 1..12, d \in 1..31 }

InitLeap ==
    /\ args \in LeapArgs
    /\ chart = NoChart
    /\ out = NoOut
    /\ op = "init"
    /\ first = NoChart
    /\ between = FALSE
    /\ calls = 0

\* detect_leap_month on raw arguments: datetime(year, month, day) of line 922
\* is outside the try block and raises for a day the month does not have
DetectLeapMonth ==
    /\ op = "init"
    /\ IF detect_leap_month_raises(args.year, args.month, args.day)
       THEN Raise("ValueError")
       ELSE /\ out' = [is_leap_month |->
                          detect_leap_month(args.year, args.month, args.day)]
            /\ op' = "detect_leap_month"
            /\ UNCHANGED <<args, chart, first, between, calls>>

NextLeap ==
    \/ DetectLeapMonth
    \/ AutoCalculateSaju

SpecLeap == InitLeap /\ [][NextLeap]_vars


\* the approximated solar terms on their own: every year the tables cover
TermYears == 1900..2100

InitTerms ==
    /\ args \in { [year |-> y] : y \in TermYears }
    /\ chart = NoChart
    /\ out = NoOut
    /\ op = "init"
    /\ first = NoChart
    /\ between = FALSE
    /\ calls = 0

CalculateSolarTermsDates ==
    /\ op = "init"
    /\ out' = _calculate_solar_terms_dates(args.year)
    /\ op' = "_calculate_solar_terms_dates"
    /\ UNCHANGED <<args, chart, first, between, calls>>

NextTerms == CalculateSolarTermsDates

SpecTerms == InitTerms /\ [][NextTerms]_vars

-----------------------------------------------------------------------------
(* Claims *)

\* a chart returned by calculate_saju is in the state
Built == chart # NoChart /\ chart.birth_info # NoInfo

\* the civil (uncorrected) birth instant of the chart in the state
CivilBirth ==
    DateTime(chart.birth_info.year, chart.birth_info.month, chart.birth_info.day,
             chart.birth_info.hour, chart.birth_info.minute)

Term1995(term) ==
    LET t == solar_terms_1995[term] IN DateTime(1995, t[1], t[2], t[3], t[4])

\* C1: for a birth in 1995, not in a leap month, the month branch is sin for
\* every instant from ipchu up to the baengno instant 1995-09-08 06:00 and yu
\* for that instant and every later one up to hallo.
C1_MonthBranchFlipsAtBaengno ==
    (Built /\ chart.birth_info.year = 1995 /\ ~chart.birth_info.is_leap_month) =>
        /\ (DtGe(CivilBirth, Term1995("ipchu")) /\ DtLt(CivilBirth, Term1995("baengno")))
              => chart.month_pillar.earthly_branch = "sin"
        /\ (DtGe(CivilBirth, Term1995("baengno")) /\ DtLt(CivilBirth, Term1995("hallo")))
              => chart.month_pillar.earthly_branch = "yu"

\* the chart of the same call at another time of the same civil date
AtTime(t) ==
    calculate_saju(chart.birth_info.year, chart.birth_info.month,
                   chart.birth_info.day, t[1], t[2], chart.birth_info.is_male,
                   chart.birth_info.timezone, chart.birth_info.is_leap_month)

\* C2: the solar-time correction moves only the hour pillar: the year, month
\* and day pillars are the same for every time of day on the civil date.
C2_OnlyHourPillarDependsOnTime ==
    Built =>
        \A t \in Times :
            /\ AtTime(t).year_pillar = chart.year_pillar
            /\ AtTime(t).month_pillar = chart.month_pillar
            /\ AtTime(t).day_pillar = chart.day_pillar

\* the Julian day number of a Gregorian date (Fliegel and Van Flandern)
JulianDay(y, m, d) ==
    LET a == (14 - m) \div 12
        yy == y + 4800 - a
        mm == m + 12 * a - 3
    IN  d + (153 * mm + 2) \div 5 + 365 * yy + yy \div 4 - yy \div 100
          + yy \div 400 - 32045

\* the solar correction leaves the birth on its civil date
SameDate ==
    chart.birth_info.birth_datetime.ord =
        Ymd2Ord(chart.birth_info.year, chart.birth_info.month, chart.birth_info.day)

IsDate(y, m, d) ==
    chart.birth_info.year = y /\ chart.birth_info.month = m /\ chart.birth_info.day = d

\* C3: when the correction leaves the birth on its civil date, the day pillar
\* is (stem d mod 10, branch (10 + d) mod 12) for d the days from 1900-01-01 to
\* that date: 1900-01-01 is gap-sul and 1995-09-22 is byeong-jin.
C3_DayPillarFromAnchor ==
    (Built /\ SameDate) =>
        LET d == JulianDay(chart.birth_info.year, chart.birth_info.month,
                           chart.birth_info.day) - JulianDay(1900, 1, 1)
        IN  /\ chart.day_pillar = SajuPillar(At(heavenly_stems, d % 10),
                                             At(earthly_branches, (10 + d) % 12))
            /\ IsDate(1900, 1, 1) => chart.day_pillar = SajuPillar("gap", "sul")
            /\ IsDate(1995, 9, 22) => chart.day_pillar = SajuPillar("byeong", "jin")

C3_Witness ==
    /\ Built /\ SameDate /\ IsDate(1995, 9, 22)
    /\ chart.day_pillar = SajuPillar("byeong", "jin")

SumElements(scores) == SumSeq([k \in 1..Len(Elements) |-> scores[Elements[k]]])

\* C4: the five rounded scores of get_element_strength sum to 8.0 (80 tenths)
\* and the five scores of get_element_strength_simple sum to 8.
C4_ElementScoresSumTo8 ==
    /\ op = "get_element_strength" => SumElements(out) = 80
    /\ op = "get_element_strength_simple" => SumElements(out) = 8

C4_Witness ==
    /\ op = "get_element_strength"
    /\ ChartBranches(chart) = <<"chuk", "sa", "o", "hae">>
    /\ \E e \in ElementSet : out[e] % 10 # 0
    /\ SumElements(out) = 80

\* C5: the day master is the day pillar's stem, and the list of the day
\* pillar holds no stem-tagged relation.
C5_DayPillarStemSkipped ==
    op = "analyze_ten_gods" =>
        /\ get_day_master(chart) = chart.day_pillar.heavenly_stem
        /\ \A k \in 1..Len(out.ilju) : out.ilju[k].kind # "cheongan"

C5_Witness ==
    /\ op = "analyze_ten_gods"
    /\ Len(out.ilju) > 0
    /\ \A k \in 1..Len(out.ilju) : out.ilju[k].kind = "jiji"
    /\ Len(out.nyeonju) > 0 /\ out.nyeonju[1].kind = "cheongan"

\* C6: every one of the 12 branches, those of the chart at hand among them,
\* has 1 to 3 hidden stems, each a heavenly stem, with integer percentages
\* that sum to 100.
C6_HiddenStemWeights ==
    /\ DOMAIN hidden_stems = Branches
    /\ \A b \in Branches \cup SeqToSet(ChartBranches(chart)) :
          LET hs == hidden_stems[b]
          IN  /\ Len(hs) \in 1..3
              /\ \A k \in 1..Len(hs) : hs[k][1] \in Stems /\ hs[k][2] \in 1..100
              /\ SumSeq([k \in 1..Len(hs) |-> hs[k][2]]) = 100

\* an analyzer has read the three hidden stems of the day branch
C6_Witness ==
    /\ op = "get_element_strength"
    /\ Len(hidden_stems[chart.day_pillar.earthly_branch]) = 3
    /\ SumSeq([k \in 1..3 |-> hidden_stems[chart.day_pillar.earthly_branch][k][2]]) = 100

Flipped(direction) == IF direction = "sunhaeng" THEN "yeokhaeng" ELSE "sunhaeng"

\* the great fortune of the same birth with the other sex
OtherSexFortune ==
    calculate_great_fortune_improved(
        calculate_saju(chart.birth_info.year, chart.birth_info.month,
                       chart.birth_info.day, chart.birth_info.hour,
                       chart.birth_info.minute, ~chart.birth_info.is_male,
                       chart.birth_info.timezone, chart.birth_info.is_leap_month))

\* C7: all 8 periods are forward exactly when the year stem index is even and
\* the person male, or odd and not male, and backward otherwise; the other
\* sex gets the other direction on every period.
C7_FortuneDirection ==
    op = "calculate_great_fortune_improved" =>
        LET idx == Index(heavenly_stems, chart.year_pillar.heavenly_stem)
            forward == \/ (idx % 2 = 0 /\ chart.birth_info.is_male)
                       \/ (idx % 2 = 1 /\ ~chart.birth_info.is_male)
            other == OtherSexFortune
        IN  /\ Len(out) = 8
            /\ Len(other) = 8
            /\ \A k \in 1..8 :
                  /\ out[k].direction = IF forward THEN "sunhaeng" ELSE "yeokhaeng"
                  /\ other[k].direction = Flipped(out[k].direction)

C7_Witness ==
    /\ op = "calculate_great_fortune_improved"
    /\ chart.year_pillar.heavenly_stem = "eul"
    /\ ~chart.birth_info.is_male
    /\ \A k \in 1..8 : out[k].direction = "sunhaeng"

\* C8: in a leap month the month branch is that of the 15th of the month
\* before (month 2..12), or of December 15 of the year before (month 1),
\* computed as a non-leap date.
C8_LeapMonthBranch ==
    (Built /\ chart.birth_info.is_leap_month) =>
        LET b == chart.birth_info
            other == IF b.month >= 2
                     THEN calculate_saju(b.year, b.month - 1, 15, b.hour, b.minute,
                                         b.is_male, b.timezone, FALSE)
                     ELSE calculate_saju(b.year - 1, 12, 15, b.hour, b.minute,
                                         b.is_male, b.timezone, FALSE)
        IN  chart.month_pillar.earthly_branch = other.month_pillar.earthly_branch

C8_Witness ==
    /\ Built /\ chart.birth_info.is_leap_month
    /\ chart.birth_info.month = 1 /\ chart.birth_info.day = 31
    /\ chart.month_pillar.earthly_branch = "ja"

RelationKeys == {"hap", "samhap", "chung", "hae", "hyeong"}

AllTables ==
    branch_relationships.hap \o branch_relationships.samhap
    \o branch_relationships.chung \o branch_relationships.hae
    \o branch_relationships.hyeong

\* no two different branches of the chart stand together in any table entry
NoRelationship(branches) ==
    \A i \in 1..4, j \in 1..4 :
        branches[i] # branches[j] =>
            \A t \in 1..Len(AllTables) :
                ~({branches[i], branches[j]} \subseteq SeqToSet(AllTables[t][1]))

\* C9: the result has exactly the five keys, each a list, and every list is
\* empty when the four branches take part in no table relationship.
C9_EmptyListsWhenNoRelationship ==
    op = "analyze_branch_relationships" =>
        /\ DOMAIN out = RelationKeys
        /\ \A key \in RelationKeys : DOMAIN out[key] = 1..Len(out[key])
        /\ NoRelationship(ChartBranches(chart)) =>
              \A key \in RelationKeys : out[key] = <<>>

C9_Witness ==
    /\ op = "analyze_branch_relationships"
    /\ ChartBranches(chart) = <<"ja", "ja", "ja", "ja">>
    /\ NoRelationship(ChartBranches(chart))
    /\ \A key \in RelationKeys : out[key] = <<>>

ArgsOf(c) ==
    MakeArgs(c.birth_info.year, c.birth_info.month, c.birth_info.day,
             c.birth_info.hour, c.birth_info.minute, c.birth_info.is_male,
             c.birth_info.timezone, c.birth_info.is_leap_month)

HasLeapMonth(year) == year \in DOMAIN leap_months /\ leap_months[year] # <<>>

\* C11: calculate_saju returns a chart only for a valid date and time and,
\* when is_leap_month is set, only for a year the leap-month registry gives
\* an intercalary month; a refused call leaves no chart.
C11_InvalidInputRejected ==
    /\ op = "calculate_saju" =>
          /\ ValidArgs(args)
          /\ args.is_leap_month => HasLeapMonth(args.year)
    /\ op = "ValueError" => chart = NoChart


\* the fields of a returned chart that hold its pillars and the echoed arguments
PillarFields == {"year_pillar", "month_pillar", "day_pillar", "hour_pillar", "birth_info"}

ArgumentFields ==
    {"year", "month", "day", "hour", "minute", "is_male", "timezone",
     "is_leap_month", "birth_datetime"}

\* the month branch of the chart came from the approximated solar terms
FromApproximatedTerms ==
    MonthTermDates(chart.birth_info.year)
        = _calculate_solar_terms_dates(chart.birth_info.year)

\* C12: a chart of a year without exact solar-term tables carries, beside its
\* pillars and the echoed arguments, a field that tells the caller the terms
\* were approximated.
C12_ApproximationReported ==
    (Built /\ chart.birth_info.year \notin {1995, 2024}) =>
        /\ FromApproximatedTerms
        /\ (DOMAIN chart \cup DOMAIN chart.birth_info)
              \ (PillarFields \cup ArgumentFields) # {}


AnalyzerNames ==
    {"analyze_ten_gods", "get_element_strength", "get_element_strength_with_season",
     "get_element_strength_balanced", "get_element_strength_simple",
     "analyze_day_master_strength", "analyze_branch_relationships",
     "analyze_shinsals", "analyze_twelve_stages", "calculate_great_fortune_improved"}

\* C13: on every chart, every lookup of every analyzer is defined (those of
\* the great fortune on a chart that calculate_saju built), and an analyzer
\* that ran returned a result and did not raise.
C13_AnalyzersCannotFail ==
    /\ TenGodsDefined(chart) /\ ElementStrengthDefined(chart)
    /\ ElementStrengthSimpleDefined(chart) /\ DayMasterStrengthDefined(chart)
    /\ BranchRelationshipsDefined(chart) /\ ShinsalsDefined(chart)
    /\ TwelveStagesDefined(chart)
    /\ chart.birth_info # NoInfo => GreatFortuneDefined(chart)
    /\ op # "chart" => (op \in AnalyzerNames /\ out # NoOut)

\* the twelve stages of a chart whose day master is an earth stem
C13_Witness ==
    /\ op = "analyze_twelve_stages"
    /\ get_day_master(chart) = "mu"
    /\ chart.day_pillar.earthly_branch = "in"
    /\ out.ilju = <<"in", "jangsaeng">>


\* the place 0..59 of a pillar in the sixty-pillar cycle, -1 for a pair of
\* stem and branch that is not in the cycle
CycleNo(pillar) ==
    LET s == Index(heavenly_stems, pillar.heavenly_stem)
        b == Index(earthly_branches, pillar.earthly_branch)
        ns == { n \in 0..59 : n % 10 = s /\ n % 12 = b }
    IN  IF ns = {} THEN -1 ELSE CHOOSE n \in ns : TRUE

\* C14: the great fortune is a list of 8 periods; with dir = +1 for forward
\* and -1 for backward, period i (0..7) is the pillar i + 1 places from the
\* month pillar in the sixty-pillar cycle, stem and branch both valid, and
\* its age is the age of the first period plus 10 * i years, so consecutive
\* periods are adjacent pillars ten years apart.
C14_EightAdjacentPeriods ==
    op = "calculate_great_fortune_improved" =>
        LET dir == IF out[1].direction = "sunhaeng" THEN 1 ELSE -1
            m == CycleNo(chart.month_pillar)
        IN  /\ DOMAIN out = 1..8
            /\ m \in 0..59
            /\ \A k \in 1..8 :
                  /\ out[k].pillar.heavenly_stem \in Stems
                  /\ out[k].pillar.earthly_branch \in Branches
                  /\ CycleNo(out[k].pillar) = (m + dir * k) % 60
                  /\ out[k].age = out[1].age + 100 * (k - 1)
            /\ \A k \in 1..7 :
                  /\ CycleNo(out[k + 1].pillar) = (CycleNo(out[k].pillar) + dir) % 60
                  /\ out[k + 1].age - out[k].age = 100

\* backward from a month pillar with stem index 0: the first period wraps
C14_Witness ==
    /\ op = "calculate_great_fortune_improved"
    /\ chart.month_pillar = SajuPillar("gap", "sin")
    /\ out[1].direction = "yeokhaeng"
    /\ out[1].pillar = SajuPillar("gye", "mi")
    /\ out[8].pillar = SajuPillar("byeong", "ja")
    /\ out[8].age = out[1].age + 700


\* the solar-term instants around a birth year, from the table the starting
\* age is computed with
TermInstants(year) ==
    { _calculate_solar_terms_dates(y)[term] :
        y \in {year - 1, year, year + 1}, term \in DOMAIN base_terms }

\* the days from the birth to the boundary next to it in the direction of
\* travel: the first one after the birth, or the last one at or before it
AdjacentTermDays(birth_datetime, year, forward) ==
    LET after == { t \in TermInstants(year) : DtLt(birth_datetime, t) }
        before == { t \in TermInstants(year) : DtGe(birth_datetime, t) }
        next == CHOOSE t \in after : \A u \in after : DtGe(u, t)
        last == CHOOSE t \in before : \A u \in before : DtGe(t, u)
    IN  IF forward THEN DtDiffDays(next, birth_datetime)
        ELSE DtDiffDays(birth_datetime, last)

\* C15: the starting age of the great fortune is the number of days between
\* the birth and the solar-term boundary next to it in the direction of
\* travel, divided by 3 and clamped to 1.0 .. 10.0 (to one decimal).
C15_StartAgeFromAdjacentTerm ==
    op = "calculate_great_fortune_improved" =>
        LET days == AdjacentTermDays(chart.birth_info.birth_datetime,
                                     chart.birth_info.year,
                                     out[1].direction = "sunhaeng")
        IN  out[1].age = Round1Div(Max(3, Min(30, days)), 3)


\* the sohan instant of a year: from the table the month branch is read from
\* when it lists sohan, from the approximated terms otherwise
SohanDate(year) ==
    IF "sohan" \in DOMAIN MonthTermDates(year)
    THEN MonthTermDates(year)["sohan"]
    ELSE _calculate_solar_terms_dates(year)["sohan"]

\* C16: the month branch of a date (not in a leap month) that is on or after
\* sohan and before ipchun is chuk, and that of a date on or after daeseol,
\* or before sohan, is ja.
C16_WinterMonthBranches ==
    (Built /\ ~chart.birth_info.is_leap_month) =>
        LET b == chart.birth_info
            date == DateTime(b.year, b.month, b.day, 0, 0)
            terms == MonthTermDates(b.year)
        IN  /\ (DtGe(date, SohanDate(b.year)) /\ DtLt(date, terms["ipchun"]))
                  => chart.month_pillar.earthly_branch = "chuk"
            /\ (DtLt(date, SohanDate(b.year)) \/ DtGe(date, terms["daeseol"]))
                  => chart.month_pillar.earthly_branch = "ja"


\* the remainder of n by d brought into 0 .. d - 1 step by step
NonNegativeMod(n, d) == ((n % d) + d) % d

\* C17: the year pillar has stem index (year - 1984) mod 10 and branch index
\* (year - 1984) mod 12, both at least 0 also before 1984; 1984 is gap-ja,
\* and the pillar comes back after 60 years and not sooner.
C17_YearPillarFrom1984 ==
    Built =>
        LET year == chart.birth_info.year
            s == NonNegativeMod(year - 1984, 10)
            b == NonNegativeMod(year - 1984, 12)
        IN  /\ s \in 0..9 /\ b \in 0..11
            /\ chart.year_pillar = SajuPillar(heavenly_stems[s + 1], earthly_branches[b + 1])
            /\ _calculate_year_pillar(1984) = SajuPillar("gap", "ja")
            /\ _calculate_year_pillar(year + 60) = chart.year_pillar
            /\ _calculate_year_pillar(year - 60) = chart.year_pillar
            /\ \A p \in 1..59 : _calculate_year_pillar(year + p) # chart.year_pillar

\* a year before the anchor: 1900 is gyeong-ja
C17_Witness ==
    /\ Built
    /\ chart.birth_info.year = 1900
    /\ chart.year_pillar = SajuPillar("gyeong", "ja")


\* the stem of the tiger month by year stem: gap/gi byeong, eul/gyeong mu,
\* byeong/sin gyeong, jeong/im im, mu/gye gap
TigerMonthStem ==
    <<"byeong", "mu", "gyeong", "im", "gap", "byeong", "mu", "gyeong", "im", "gap">>

\* C18: with ys the stem index of the calendar year, (year - 1984) mod 10, and
\* b the month branch index, the month stem index is
\* (base(ys) + ((b - 2) mod 12)) mod 10 for base(ys) = (2 * (ys mod 5) + 2) mod 10,
\* the base being the stem of the tiger month of the table above.
C18_MonthStemFromYearStem ==
    Built =>
        LET ys == (chart.birth_info.year - 1984) % 10
            b == Index(earthly_branches, chart.month_pillar.earthly_branch)
            base == (2 * (ys % 5) + 2) % 10
        IN  /\ ys = Index(heavenly_stems, chart.year_pillar.heavenly_stem)
            /\ Index(heavenly_stems, chart.month_pillar.heavenly_stem)
                  = (base + ((b - 2) % 12)) % 10
            /\ \A y \in 0..9 :
                  /\ MonthStemBase(y) = (2 * (y % 5) + 2) % 10
                  /\ At(heavenly_stems, MonthStemBase(y)) = TigerMonthStem[y + 1]

\* a tiger month of an eul year
C18_Witness ==
    /\ Built
    /\ chart.year_pillar.heavenly_stem = "eul"
    /\ chart.month_pillar = SajuPillar("mu", "in")


\* C19: for day stem index ds and clock time m minutes after midnight, the
\* hour pillar has branch index ((m + 60) div 120) mod 12, the ja window
\* running from 23:00 to 00:59, and stem index (2 * (ds mod 5) + branch) mod 10.
C19_HourPillarWindows ==
    op = "_calculate_hour_pillar_improved" =>
        LET m == args.hour * 60 + args.minute
            ds == Index(heavenly_stems, args.day_stem)
            b == ((m + 60) \div 120) % 12
        IN  /\ out.earthly_branch = At(earthly_branches, b)
            /\ out.heavenly_stem = At(heavenly_stems, (2 * (ds % 5) + b) % 10)
            /\ (m >= 23 * 60 \/ m <= 59) <=> out.earthly_branch = "ja"

\* 23:00 on a sin day opens the ja window with stem mu
C19_Witness ==
    /\ op = "_calculate_hour_pillar_improved"
    /\ args.day_stem = "sin" /\ args.hour = 23 /\ args.minute = 0
    /\ out = SajuPillar("mu", "ja")


\* the pairs of names by the distance k = 0..4 along mok, hwa, to, geum, su
GodPairs ==
    << <<"bigyeon", "geopjae">>, <<"siksin", "sanggwan">>,
       <<"pyeonjae", "jeongjae">>, <<"pyeongwan", "jeonggwan">>,
       <<"pyeonin", "jeongin">> >>

\* the name by the cycle: two consecutive stems share an element, so the
\* place of a stem's element in the cycle is its index halved
CycleGod(day_master, stem) ==
    LET d == Index(heavenly_stems, day_master)
        t == Index(heavenly_stems, stem)
        k == ((t \div 2) - (d \div 2)) % 5
    IN  IF t % 2 = d % 2 THEN GodPairs[k + 1][1] ELSE GodPairs[k + 1][2]

\* the names the cycle gives for the entries of one pillar, in their order
CycleGodsOfPillar(day_master, pillar) ==
    LET hs == hidden_stems[pillar.earthly_branch]
    IN  (IF pillar.heavenly_stem # day_master
         THEN <<CycleGod(day_master, pillar.heavenly_stem)>> ELSE <<>>)
        \o ConcatAll([k \in 1..Len(hs) |->
              IF hs[k][1] # day_master
              THEN <<CycleGod(day_master, hs[k][1])>> ELSE <<>>])

StemTagged(gods) ==
    Cardinality({ k \in 1..Len(gods) : gods[k].kind = "cheongan" })

\* C21: among pillar stems only the day pillar's own is skipped: the lists of
\* the year, month and hour pillars each hold exactly one stem-tagged entry,
\* which is bigyeon when that pillar's stem is the day master's stem, and the
\* list of the day pillar holds none.
C21_OnlyDayPillarStemSkipped ==
    op = "analyze_ten_gods" =>
        /\ StemTagged(out.ilju) = 0
        /\ \A name \in {"nyeonju", "wolju", "siju"} : StemTagged(out[name]) = 1
        /\ \A p \in {<<"nyeonju", chart.year_pillar>>, <<"wolju", chart.month_pillar>>,
                     <<"siju", chart.hour_pillar>>} :
              p[2].heavenly_stem = get_day_master(chart) =>
                  \E k \in 1..Len(out[p[1]]) :
                      /\ out[p[1]][k].kind = "cheongan"
                      /\ out[p[1]][k].god = "bigyeon"

\* the element k places after `element` in the cycle mok, hwa, to, geum, su
CycleElement(element, k) == At(Elements, (Index(Elements, element) + k) % 5)

\* the draining power of a chart under one outcome of the seasonal scores:
\* the scores of the elements at offsets 1, 2 and 3 from the day master's
DrainingPower(saju_chart, elements) ==
    LET e == five_elements[get_day_master(saju_chart)]
    IN  elements[CycleElement(e, 1)] + elements[CycleElement(e, 2)]
        + elements[CycleElement(e, 3)]

SupportingSide(element) == {element, CycleElement(element, 4)}

\* the draining-side elements
DrainingSide(element) == { CycleElement(element, k) : k \in 1..3 }

\* C23: the favorable elements are the draining side when the label is
\* singang, the supporting side (the day master's element and its resource
\* element) when sinyak and none when junghwa; the primary favorable element
\* is the lowest-scoring favorable element when singang, the highest-scoring
\* when sinyak and absent when junghwa; the favorable and the unfavorable
\* elements are disjoint.
C23_FavorableElements ==
    op = "analyze_day_master_strength" =>
        LET e == out.day_master_element
            favorable == SeqToSet(out.yongshin_elements)
            unfavorable == SeqToSet(out.gishin_elements)
        IN  /\ out.strength_type = "singang" => favorable = DrainingSide(e)
            /\ out.strength_type = "sinyak" => favorable = SupportingSide(e)
            /\ out.strength_type = "junghwa" =>
                  favorable = {} /\ out.primary_yongshin = "None"
            /\ favorable \cap unfavorable = {}
            /\ out.strength_type # "junghwa" =>
                  \E elements \in get_element_strength_with_season(chart) :
                      /\ out.consuming_power = DrainingPower(chart, elements)
                      /\ out.primary_yongshin \in favorable
                      /\ \A f \in favorable :
                            IF out.strength_type = "singang"
                            THEN elements[out.primary_yongshin] <= elements[f]
                            ELSE elements[out.primary_yongshin] >= elements[f]

\* the season-weighted contributions, in thousandths, of every stem and
\* hidden stem of the day master's element other than the day master's own
\* stem, which adds 1.0 times the seasonal weight of its element
OtherSameElementScore(saju_chart) ==
    LET e == five_elements[get_day_master(saju_chart)]
        month_branch == saju_chart.month_pillar.earthly_branch
        weight == IF month_branch \in DOMAIN seasonal_weights
                  THEN WeightOf(seasonal_weights[month_branch], e) ELSE 10
    IN  SeasonRawScore(saju_chart, e) - 100 * weight

\* C24: the same-element component of the supporting power is the summed
\* season-weighted contribution of the other stems and hidden stems of the
\* day master's element (to the rounding of the scores), so neither it nor
\* the supporting power is negative.
C24_SupportingPowerExcludesOwnStem ==
    op = "analyze_day_master_strength" =>
        /\ out.helping_power >= 0
        /\ \E elements \in get_element_strength_with_season(chart) :
              LET resource == elements[CycleElement(out.day_master_element, 4)]
                  same == out.helping_power - resource
              IN  /\ same >= 0
                  /\ \E s \in RoundDivSet(OtherSameElementScore(chart), 100) :
                        same - s \in {-1, 0, 1}

\* the number of entries of a list that carry `name` as their last field
EntriesNamed(entries, name) ==
    Cardinality({ k \in 1..Len(entries) : entries[k][Len(entries[k])] = name })

\* C25 as stated: a samhap entry and a hyeong entry are each reported for a
\* table triple exactly when all three branches of the triple are among the
\* chart's four branches.
C25_WholeTriples ==
    op = "analyze_branch_relationships" =>
        \A kind \in {"samhap", "hyeong"} :
            \A t \in 1..Len(branch_relationships[kind]) :
                LET triple == SeqToSet(branch_relationships[kind][t][1])
                    name == branch_relationships[kind][t][2]
                IN  EntriesNamed(out[kind], name)
                        = IF triple \subseteq SeqToSet(ChartBranches(chart))
                          THEN 1 ELSE 0

\* C25 amended: a samhap entry is reported for a table triple exactly when
\* all three of its branches are among the chart's branches; a hyeong entry
\* is reported exactly when at least two of the triple's branches are, and it
\* lists the branches of the triple the chart has.
C25_TriplesAndPunishmentPairs ==
    op = "analyze_branch_relationships" =>
        LET branch_set == SeqToSet(ChartBranches(chart))
        IN  /\ \A t \in 1..Len(branch_relationships.samhap) :
                  LET entry == branch_relationships.samhap[t]
                  IN  /\ EntriesNamed(out.samhap, entry[2])
                            = IF SeqToSet(entry[1]) \subseteq branch_set THEN 1 ELSE 0
                      /\ \A k \in 1..Len(out.samhap) :
                            out.samhap[k][2] = entry[2] => out.samhap[k][1] = entry[1]
            /\ \A t \in 1..Len(branch_relationships.hyeong) :
                  LET entry == branch_relationships.hyeong[t]
                      matching == SeqToSet(entry[1]) \cap branch_set
                  IN  /\ EntriesNamed(out.hyeong, entry[2])
                            = IF Cardinality(matching) >= 2 THEN 1 ELSE 0
                      /\ \A k \in 1..Len(out.hyeong) :
                            out.hyeong[k][2] = entry[2] => out.hyeong[k][1] = matching

\* a whole samhap triple, two branches of another samhap triple that give
\* no entry, and a punishment reported for two branches of its triple
C25_Witness ==
    /\ op = "analyze_branch_relationships"
    /\ SeqToSet(ChartBranches(chart)) = {"in", "o", "sul", "sa"}
    /\ out.samhap = << <<<<"in", "o", "sul">>, "hwaguk">> >>
    /\ out.hyeong = << <<{"in", "sa"}, "mueunjihyeong">> >>

\* the birth branch of an element, as the claim lists them
BirthBranch(element) ==
    CASE element = "mok" -> "hae"
      [] element = "hwa" -> "in"
      [] element = "to" -> "in"
      [] element = "geum" -> "sa"
      [] element = "su" -> "sin"

\* the twelve stages in their order, jangsaeng first
StageSequence ==
    <<"jangsaeng", "mogyok", "gwandae", "geollok", "jewang", "soe", "byeong",
      "sa", "myo", "jeol", "tae", "yang">>

\* C26: each of the four pillars gets its own branch and one stage; counting
\* the stage's place from jangsaeng = 0, the pillar's branch lies that many
\* branches after the birth branch of the day master's element for a yang
\* day master and that many before it for a yin one, so a pillar on the birth
\* branch is jangsaeng for both.
C26_TwelveStagesByPolarity ==
    op = "analyze_twelve_stages" =>
        LET day_master == get_day_master(chart)
            yang == Index(heavenly_stems, day_master) % 2 = 0
            birth == Index(earthly_branches, BirthBranch(five_elements[day_master]))
            pillar == [nyeonju |-> chart.year_pillar, wolju |-> chart.month_pillar,
                       ilju |-> chart.day_pillar, siju |-> chart.hour_pillar]
        IN  /\ DOMAIN out = {"nyeonju", "wolju", "ilju", "siju"}
            /\ \A name \in DOMAIN out :
                  LET branch == Index(earthly_branches, pillar[name].earthly_branch)
                  IN  /\ out[name][1] = pillar[name].earthly_branch
                      /\ Cardinality({ s \in 0..11 : At(StageSequence, s) = out[name][2] }) = 1
                      /\ \A s \in 0..11 :
                            At(StageSequence, s) = out[name][2] =>
                                branch = IF yang THEN (birth + s) % 12
                                         ELSE (birth + 12 - s) % 12
                      /\ branch = birth => out[name][2] = "jangsaeng"

\* a yin wood day master: the year branch sul lies one before the birth
\* branch hae and is mogyok, the day branch hae is jangsaeng
C26_Witness ==
    /\ op = "analyze_twelve_stages"
    /\ get_day_master(chart) = "eul"
    /\ out.nyeonju = <<"sul", "mogyok">>
    /\ out.ilju = <<"hae", "jangsaeng">>

\* stem and branch of a pillar are known and their indexes have one parity
SameParity(pillar) ==
    /\ pillar.heavenly_stem \in Stems
    /\ pillar.earthly_branch \in Branches
    /\ Index(heavenly_stems, pillar.heavenly_stem) % 2
          = Index(earthly_branches, pillar.earthly_branch) % 2

\* C27: the year, month, day and hour pillars of every chart calculate_saju
\* builds, and the pillars of the 8 great-fortune periods computed from it,
\* pair a stem and a branch of the same index parity (one of the 60 pairs of
\* the cycle).
C27_PillarsAreCyclePairs ==
    Built =>
        /\ \A k \in 1..4 :
              SameParity(Pillars(chart)[k]) /\ CycleNo(Pillars(chart)[k]) \in 0..59
        /\ op = "calculate_great_fortune_improved" =>
              /\ Len(out) = 8
              /\ \A k \in 1..8 : SameParity(out[k].pillar)

\* a backward great fortune from a month pillar gap-sin, hour pillar of a yin
\* day stem
C27_Witness ==
    /\ op = "calculate_great_fortune_improved"
    /\ Index(heavenly_stems, chart.day_pillar.heavenly_stem) % 2 = 1
    /\ Index(heavenly_stems, chart.hour_pillar.heavenly_stem) % 2 = 1
    /\ chart.month_pillar = SajuPillar("gap", "sin")
    /\ out[1].pillar = SajuPillar("gye", "mi")

\* the date lies in a registered leap-month interval, start date through end
\* date; an interval whose end month is before its start month ends in the
\* year after
InLeapInterval(year, month, day) ==
    \E y \in DOMAIN leap_months :
        /\ leap_months[y] # <<>>
        /\ LET e == leap_months[y]
               end_year == IF e[4] < e[2] THEN y + 1 ELSE y
               date == Ymd2Ord(year, month, day)
           IN  /\ Ymd2Ord(y, e[2], e[3]) <= date
               /\ date <= Ymd2Ord(end_year, e[4], e[5])

\* C28: detect_leap_month returns True exactly for the dates within a
\* registered leap-month interval, the part of the 2033 interval that lies in
\* January 2034 included, and auto_calculate_saju stores that flag in the
\* chart it builds.
C28_LeapIntervalsDetected ==
    /\ op = "detect_leap_month" =>
          out.is_leap_month = InLeapInterval(args.year, args.month, args.day)
    /\ op = "auto_calculate_saju" =>
          chart.birth_info.is_leap_month
              = InLeapInterval(args.year, args.month, args.day)

\* the base month/day/hour/minute of a term in `year`, moved by `hours`
\* whole hours along the calendar
BaseTermShifted(year, term, hours) ==
    LET t == base_terms[term]
    IN  DtMinusSeconds(DateTime(year, t[1], t[2], t[3], t[4]), -(hours * 3600))

\* C29: for every year of 1900..2100 each of the 24 timestamps is the term's
\* base month/day/hour/minute moved by exactly int((year - 2000) * 0.25)
\* whole hours, the hours carried into or borrowed from the day, before 2000
\* as well as after, and the 24 timestamps increase strictly in calendar
\* order.
C29_TermsShiftedByWholeHours ==
    op = "_calculate_solar_terms_dates" =>
        /\ DOMAIN out = DOMAIN base_terms
        /\ \A term \in DOMAIN base_terms :
              /\ out[term] = BaseTermShifted(args.year, term,
                                             IntTrunc((args.year - 2000) * 25, 100))
              /\ DtHour(out[term]) \in 0..23
        /\ \A i \in 1..(Len(terms_order) - 1) :
              DtLt(out[terms_order[i]], out[terms_order[i + 1]])

\* the birth years that have an exact solar-term table
ExactYears == {1995, 2024}

\* C30: for a chart of a birth year with an exact table, every solar-term
\* timestamp the starting age of the great fortune is computed from is the
\* timestamp the month branch of that chart was resolved with.
C30_OneTermTablePerChart ==
    (op = "calculate_great_fortune_improved" /\ chart.birth_info.year \in ExactYears) =>
        LET year == chart.birth_info.year
            fortune_terms == _calculate_solar_terms_dates(year)
            month_terms == MonthTermDates(year)
        IN  \A term \in DOMAIN fortune_terms \cap DOMAIN month_terms :
                fortune_terms[term] = month_terms[term]

=============================================================================
